---- MODULE Spec2Model ----
(***************************************************************************)
(* A model of the keyword-driven retrieval of the AI Museum Curator        *)
(* (nga-curator/app.py): the catalog store as relational tables, the       *)
(* dynamic WHERE construction of query_artworks_enhanced, the SQL it sends *)
(* to the warehouse evaluated with SQL semantics (LEFT JOIN, three-valued  *)
(* LIKE, SELECT DISTINCT, STRING_AGG, ORDER BY, LIMIT), the request       *)
(* handler that calls it, the three detail fetchers, and the two loaders   *)
(* that fill the dataset: scripts/load_to_bigquery.py and the older        *)
(* nga-curator/load_to_bigquery.py.                                        *)
(*                                                                         *)
(* Conventions.  A text value is a sequence of characters, each a string:  *)
(* an ASCII character is the string of that one character, a character     *)
(* outside ASCII is the name of its code point, "U+" and four hexadecimal  *)
(* digits in upper case ("U+00A0", "U+00E9"), so that the module is ASCII  *)
(* and reads the same under every character encoding.  A nullable column   *)
(* holds a set with at most one element: {} is SQL NULL and {v} is the     *)
(* value v.                                                                *)
(***************************************************************************)
EXTENDS Integers, Sequences, FiniteSets, TLC

VARIABLES
    store,               \* the tables of the warehouse dataset
    keywords,            \* the keyword list handed to query_artworks_enhanced
    search_type,         \* its search_type argument
    limit,               \* its limit argument
    outcome,             \* "idle", "returned", or the exception the call raised
    result,              \* the table the call returned (selected_artworks)
    pc,                  \* where the request handler stands
    show_detailed_info,  \* the sidebar checkbox
    response,            \* the text of the model's response
    row,                 \* the row of selected_artworks the handler renders next
    ui,                  \* the elements the handler has put on the page, in order
    calls,               \* the external calls the handler has made, in order
    data_dir,            \* the CSV files of the loader's data directory
    successful_loads,    \* the tables the loader has recorded as loaded
    failed_loads,        \* the tables the loader has recorded as failed
    frame,               \* the filtered frame of published_images, until it is loaded
    object_ids           \* the object ids the older loader script has fetched

vars == <<store, keywords, search_type, limit, outcome, result,
          pc, show_detailed_info, response, row, ui, calls,
          data_dir, successful_loads, failed_loads, frame, object_ids>>

requestVars == <<pc, show_detailed_info, response, row, ui, calls>>

loaderVars == <<data_dir, successful_loads, failed_loads, frame, object_ids>>

\* The variables of the application, which no step of a loader touches.
appVars == <<keywords, search_type, limit, outcome, result,
             show_detailed_info, response, row, ui, calls>>

\* No loader runs.
LoaderIdle ==
    /\ data_dir = <<>>
    /\ successful_loads = <<>>
    /\ failed_loads = <<>>
    /\ frame = {}
    /\ object_ids = {}

(***************************************************************************)
(* Bounds of the model.                                                    *)
(***************************************************************************)
MaxKeywords == 2
MaxLimit == 2

NULL == {}
Some(v) == {v}
IsNull(x) == x = {}
NotNull(x) == x # {}
Val(x) == CHOOSE v \in x : TRUE

Min(a, b) == IF a <= b THEN a ELSE b

(***************************************************************************)
(* Text: Python's str.lower() and SQL's LOWER() on the model's alphabet.   *)
(***************************************************************************)
UpperLetters ==
    <<"A", "B", "C", "D", "E", "F", "G", "H", "I", "J", "K", "L", "M",
      "N", "O", "P", "Q", "R", "S", "T", "U", "V", "W", "X", "Y", "Z">>

LowerLetters ==
    <<"a", "b", "c", "d", "e", "f", "g", "h", "i", "j", "k", "l", "m",
      "n", "o", "p", "q", "r", "s", "t", "u", "v", "w", "x", "y", "z">>

LowerOf ==
    [u \in { UpperLetters[n] : n \in 1..Len(UpperLetters) } |->
        LowerLetters[CHOOSE n \in 1..Len(UpperLetters) : UpperLetters[n] = u]]

LowerChar(ch) == IF ch \in DOMAIN LowerOf THEN LowerOf[ch] ELSE ch

Lower(s) == [i \in 1..Len(s) |-> LowerChar(s[i])]

\* SQL LIKE on non-null operands: % matches any run of characters, _ matches
\* exactly one character, every other pattern character matches itself.  (A
\* backslash would escape the next pattern character; the texts of the model
\* hold none.)
RECURSIVE LikeMatch(_, _)
LikeMatch(s, p) ==
    IF p = <<>> THEN s = <<>>
    ELSE IF Head(p) = "%"
         THEN LikeMatch(s, Tail(p)) \/ (s # <<>> /\ LikeMatch(Tail(s), p))
         ELSE /\ s # <<>>
              /\ (Head(p) = "_" \/ Head(p) = Head(s))
              /\ LikeMatch(Tail(s), Tail(p))

\* LOWER(column) LIKE ?  with three-valued logic: NULL LIKE p is NULL, which
\* a WHERE clause treats as not true.
LowerLike(column, p) == NotNull(column) /\ LikeMatch(Lower(Val(column)), p)

(***************************************************************************)
(* The catalog store.  Of objects and locations only the columns the       *)
(* retrieval query tests or sorts by are kept: the others it selects are   *)
(* functions of objectid and locationid and travel with them.  Of          *)
(* constituents and published_images every selected column is kept, since  *)
(* their keys are not selected and each column can separate two rows.      *)
(***************************************************************************)
SearchTypes == {"comprehensive", "terms_only", "title_only"}

T_Ab == <<"A", "b">>
T_c == <<"c">>
T_Ca == <<"C", "a">>
T_D == <<"D">>
T_ac == <<"a", "c">>

\* constituents: constituentid is unique (tests/test_data_quality.py).
Constituents ==
    LET Constituent(id, name, nationality, dates, born, died) ==
            [constituentid |-> id, preferreddisplayname |-> name,
             nationality |-> nationality, displaydate |-> dates,
             beginyear |-> born, endyear |-> died]
    IN  { Constituent(1, Some(T_Ca), Some("Dutch"), Some("1600 - 1650"), Some(1600), Some(1650)),
          Constituent(2, Some(T_D), NULL, NULL, NULL, NULL),
          Constituent(3, NULL, Some("French"), NULL, Some(1800), NULL),
          \* a namesake of constituent 1
          Constituent(5, Some(T_Ca), Some("Dutch"), Some("1700 - 1750"), Some(1700), Some(1750)) }

Locations == { [locationid |-> 7, description |-> Some("West Building"), site |-> Some("WB")] }

\* One object together with the child rows that reference it.
Bundle(id, acc, title, medium, classification, year, loc, terms, links, images) ==
    [ objects |-> { [objectid |-> id, accessioned |-> acc, title |-> title,
                     medium |-> medium, classification |-> classification,
                     beginyear |-> year, locationid |-> loc, displaydate |-> NULL] },
      objects_terms |-> { [objectid |-> id, term |-> t[1], termtype |-> t[2]] : t \in terms },
      objects_constituents |->
          { [objectid |-> id, constituentid |-> l[1], roletype |-> l[2],
             role |-> NULL, displaydate |-> NULL, displayorder |-> NULL] : l \in links },
      published_images |->
          { [objectid |-> id, iiifurl |-> i[1], viewtype |-> i[2], width |-> i[3],
             height |-> i[4]]
              : i \in images } ]

NoBundle == [objects |-> {}, objects_terms |-> {}, objects_constituents |-> {},
             published_images |-> {}]

MakeStore(b1, b2) ==
    [ objects |-> b1.objects \cup b2.objects,
      objects_terms |-> b1.objects_terms \cup b2.objects_terms,
      objects_constituents |-> b1.objects_constituents \cup b2.objects_constituents,
      constituents |-> Constituents,
      published_images |-> b1.published_images \cup b2.published_images,
      locations |-> Locations,
      objects_text_entries |-> {} ]

PrimaryU1 == <<Some("u1"), "primary", 640, 480>>
PrimaryU2 == <<Some("u2"), "primary", 800, 600>>
PrimaryNoUrl == <<NULL, "primary", 640, 480>>
AlternateU1 == <<Some("u1"), "alternate", 640, 480>>
\* A second primary image of the URL and width of PrimaryU1.
PrimaryU1Tall == <<Some("u1"), "primary", 640, 900>>

Theme(t) == <<Some(t), "Theme">>
Style(t) == <<Some(t), "Style">>

ArtistLink(c) == <<c, "artist">>
OwnerLink(c) == <<c, "owner">>

\* Object 1, varied in what the keyword predicates read.
MatchBundles ==
    { Bundle(1, 1, title, NULL, NULL, Some(1650), Some(7), terms, links, {PrimaryU1}) :
        title \in {NULL, Some(T_Ab)},
        terms \in {{}, {Theme(T_c)}, {Theme(T_c), Style(T_c)}, {Theme(T_c), Theme(T_Ab)}},
        links \in {{}, {ArtistLink(1)}, {ArtistLink(1), ArtistLink(2)},
                   {ArtistLink(3)}, {OwnerLink(1)}} }

\* Object 1, varied in what makes it eligible and in what multiplies its rows.
EligibilityBundles ==
    { Bundle(1, acc, Some(T_Ab), NULL, NULL, Some(1650), NULL, {Theme(T_c)}, links, images) :
        acc \in {0, 1},
        links \in {{}, {ArtistLink(1)}, {OwnerLink(2)}},
        images \in {{}, {PrimaryU1}, {PrimaryU1, PrimaryU2},
                    {PrimaryNoUrl}, {AlternateU1}, {PrimaryU1, AlternateU1}} }

\* Object 1 with rows that only a column of a constituent or of an image
\* tells apart: two artists of one name and nationality born a century
\* apart, and two primary images of one URL and width.
NamesakeBundles ==
    { Bundle(1, 1, Some(T_Ab), NULL, NULL, Some(1650), Some(7), {Theme(T_c)},
             {ArtistLink(1), ArtistLink(5)}, {PrimaryU1}),
      Bundle(1, 1, Some(T_Ab), NULL, NULL, Some(1650), Some(7), {Theme(T_c)},
             {ArtistLink(1)}, {PrimaryU1, PrimaryU1Tall}) }

\* Objects 1 and 2, varied in what the ranking reads.
RankBundles1 ==
    { Bundle(1, 1, Some(T_Ab), NULL, NULL, year, NULL, {}, links, {PrimaryU1}) :
        year \in {NULL, Some(1650)},
        links \in {{}, {ArtistLink(1)}} }

RankBundles2 ==
    { Bundle(2, 1, f[1], f[2], f[3], year, NULL, {}, links, {PrimaryU1}) :
        f \in {<<Some(T_Ab), NULL, NULL>>, <<NULL, Some(T_ac), Some(T_D)>>},
        year \in {NULL, Some(1650), Some(1700)},
        links \in {{}, {ArtistLink(2)}} }

\* A row of objects_text_entries.
TextEntry(id, texttype, text, year) ==
    [objectid |-> id, texttype |-> texttype, text |-> text, year |-> year]

\* The text entries of object 1 in the stores a request is served from: a
\* complete entry, one without text, one without texttype, and a complete
\* entry followed by one of another type without text.
RequestTextEntries ==
    { { TextEntry(1, Some(T_c), Some(T_Ab), Some(1990)) },
      { TextEntry(1, Some(T_c), NULL, Some(1990)) },
      { TextEntry(1, NULL, Some(T_Ab), NULL) },
      { TextEntry(1, Some(T_Ab), Some(T_Ab), NULL), TextEntry(1, Some(T_c), NULL, NULL) } }

\* The stores a request is served from.
RequestStores ==
    { MakeStore(b1, NoBundle) : b1 \in MatchBundles }
    \cup { [MakeStore(Bundle(1, 1, Some(T_Ab), NULL, NULL, Some(1650), Some(7),
                             {Theme(T_c)}, {ArtistLink(1)}, {PrimaryU1}), NoBundle)
               EXCEPT !.objects_text_entries = entries] :
             entries \in RequestTextEntries }

Stores ==
    { MakeStore(b1, NoBundle) :
        b1 \in MatchBundles \cup EligibilityBundles \cup NamesakeBundles }
    \cup { MakeStore(b1, b2) : b1 \in RankBundles1, b2 \in RankBundles2 }

(***************************************************************************)
(* query_artworks_enhanced: the WHERE construction (app.py 35-58).         *)
(***************************************************************************)
\* A pattern without the two wildcards around the keyword.
keyword_lower_without_wildcards(keyword) == Lower(keyword)

\* keyword_lower = f"%{keyword.lower()}%"
keyword_lower(keyword) == <<"%">> \o Lower(keyword) \o <<"%">>

ComprehensiveColumns == <<"title", "term", "artist_name", "medium", "classification">>

\* The columns whose placeholders one where_clause holds, in placeholder order.
where_clause(st) ==
    CASE st = "comprehensive" -> ComprehensiveColumns
      [] st = "terms_only" -> <<"term">>
      [] st = "title_only" -> <<"title">>

RECURSIVE Repeat(_, _)
Repeat(x, n) == IF n = 0 THEN <<>> ELSE <<x>> \o Repeat(x, n - 1)

RECURSIVE Flatten(_)
Flatten(ss) == IF ss = <<>> THEN <<>> ELSE Head(ss) \o Flatten(Tail(ss))

\* where_clauses: one clause per keyword, in keyword order.
where_clauses(kws, st) == [k \in 1..Len(kws) |-> where_clause(st)]

\* params with one value for each keyword, whatever the scope.
params_one_per_keyword(kws, st) ==
    [k \in 1..Len(kws) |-> keyword_lower(kws[k])]

\* params: the bound values, in placeholder order.
params(kws, st) ==
    Flatten([k \in 1..Len(kws) |-> Repeat(keyword_lower(kws[k]), Len(where_clause(st)))])

\* The position in params of placeholder n of clause k.
RECURSIVE ParamIndex(_, _, _)
ParamIndex(clauses, k, n) ==
    IF k = 1 THEN n ELSE Len(clauses[k - 1]) + ParamIndex(clauses, k - 1, n)

(***************************************************************************)
(* The SQL of query_artworks_enhanced (app.py 61-118).                     *)
(***************************************************************************)
\* A LEFT JOIN keeps the left row: with no partner, the right columns are NULL.
NoTerm == [term |-> NULL]
NoLink == [constituentid |-> NULL]
NoConstituent == [preferreddisplayname |-> NULL, nationality |-> NULL,
                  displaydate |-> NULL, beginyear |-> NULL, endyear |-> NULL]
NoImage == [iiifurl |-> NULL, width |-> NULL, height |-> NULL]
NoLocation == [description |-> NULL, site |-> NULL]

LeftJoin(matches, nullrow) == IF matches = {} THEN {nullrow} ELSE matches

\* LEFT JOIN objects_terms ot ON o.objectid = ot.objectid
JoinTerms(st, o) ==
    LeftJoin({ [term |-> t.term] : t \in { x \in st.objects_terms : x.objectid = o.objectid } },
             NoTerm)

\* LEFT JOIN objects_constituents oc ON o.objectid = oc.objectid AND oc.roletype = 'artist'
JoinLinks(st, o) ==
    LeftJoin({ [constituentid |-> Some(l.constituentid)] :
                 l \in { x \in st.objects_constituents :
                           x.objectid = o.objectid /\ x.roletype = "artist" } },
             NoLink)

\* LEFT JOIN constituents c ON oc.constituentid = c.constituentid
JoinConstituents(st, oc) ==
    LeftJoin({ [preferreddisplayname |-> c.preferreddisplayname,
                nationality |-> c.nationality, displaydate |-> c.displaydate,
                beginyear |-> c.beginyear, endyear |-> c.endyear] :
                 c \in { x \in st.constituents : oc.constituentid = Some(x.constituentid) } },
             NoConstituent)

\* JoinImages without the viewtype condition of the ON clause.
JoinImagesAnyViewtype(st, o) ==
    LeftJoin({ [iiifurl |-> i.iiifurl, width |-> Some(i.width),
                height |-> Some(i.height)] :
                 i \in { x \in st.published_images : x.objectid = o.objectid } },
             NoImage)

\* LEFT JOIN published_images pi ON o.objectid = pi.objectid AND pi.viewtype = 'primary'
JoinImages(st, o) ==
    LeftJoin({ [iiifurl |-> i.iiifurl, width |-> Some(i.width),
                height |-> Some(i.height)] :
                 i \in { x \in st.published_images :
                           x.objectid = o.objectid /\ x.viewtype = "primary" } },
             NoImage)

\* LEFT JOIN locations l ON o.locationid = l.locationid
JoinLocations(st, o) ==
    LeftJoin({ [description |-> l.description, site |-> l.site] :
                 l \in { x \in st.locations : o.locationid = Some(x.locationid) } },
             NoLocation)

\* The rows of the FROM clause, before WHERE.
JoinedRows(st) ==
    UNION { UNION { { [o |-> o, ot |-> ot, c |-> c, pi |-> pi, l |-> l] :
                        ot \in JoinTerms(st, o), c \in JoinConstituents(st, oc),
                        pi \in JoinImages(st, o), l \in JoinLocations(st, o) }
                    : oc \in JoinLinks(st, o) }
            : o \in st.objects }

Column(j, name) ==
    CASE name = "title" -> j.o.title
      [] name = "term" -> j.ot.term
      [] name = "artist_name" -> j.c.preferreddisplayname
      [] name = "medium" -> j.o.medium
      [] name = "classification" -> j.o.classification

\* One where_clause: its LIKE predicates joined by OR, each placeholder bound
\* to the parameter at its position.
ClauseHolds(j, clauses, ps, k) ==
    \E n \in 1..Len(clauses[k]) :
        LowerLike(Column(j, clauses[k][n]), ps[ParamIndex(clauses, k, n)])

\* KeywordPredicate with the clauses joined by AND.
KeywordPredicateAnd(j, clauses, ps) ==
    \A k \in 1..Len(clauses) : ClauseHolds(j, clauses, ps, k)

\* ({' OR '.join(where_clauses)})
KeywordPredicate(j, clauses, ps) ==
    \E k \in 1..Len(clauses) : ClauseHolds(j, clauses, ps, k)

\* WHERE o.accessioned = 1 AND (...) AND pi.iiifurl IS NOT NULL
Where(j, clauses, ps) ==
    /\ j.o.accessioned = 1
    /\ KeywordPredicate(j, clauses, ps)
    /\ NotNull(j.pi.iiifurl)

\* The SELECT list of artwork_base.
Project(j) ==
    [ objectid |-> j.o.objectid,
      title |-> j.o.title,
      medium |-> j.o.medium,
      classification |-> j.o.classification,
      artist_name |-> j.c.preferreddisplayname,
      artist_dates |-> j.c.displaydate,
      artist_nationality |-> j.c.nationality,
      artist_birth_year |-> j.c.beginyear,
      artist_death_year |-> j.c.endyear,
      iiifurl |-> j.pi.iiifurl,
      image_width |-> j.pi.width,
      image_height |-> j.pi.height,
      location_description |-> j.l.description,
      building |-> j.l.site,
      creation_start_year |-> j.o.beginyear ]

\* SELECT DISTINCT ... : a set of rows.
artwork_base(st, clauses, ps) ==
    { Project(j) : j \in { x \in JoinedRows(st) : Where(x, clauses, ps) } }

\* The terms STRING_AGG(DISTINCT ot2.term, ', ') reads for one group: the
\* non-null terms of the LEFT JOIN objects_terms ot2 ON ab.objectid = ot2.objectid.
AggregatedTerms(st, id) ==
    { t \in st.objects_terms : t.objectid = id /\ NotNull(t.term) }

RECURSIVE JoinWith(_, _)
JoinWith(ss, sep) ==
    IF ss = <<>> THEN <<>>
    ELSE IF Len(ss) = 1 THEN Head(ss)
    ELSE Head(ss) \o sep \o JoinWith(Tail(ss), sep)

\* Every sequence that lists each element of S once.
RECURSIVE Enumerations(_)
Enumerations(S) ==
    IF S = {} THEN {<<>>}
    ELSE UNION { { <<x>> \o e : e \in Enumerations(S \ {x}) } : x \in S }

\* STRING_AGG without DISTINCT: one value per joined row.
RECURSIVE TermsIn(_)
TermsIn(e) == IF e = <<>> THEN <<>> ELSE <<Val(Head(e).term)>> \o TermsIn(Tail(e))

STRING_AGG_All(rows) ==
    IF rows = {} THEN {NULL}
    ELSE { Some(JoinWith(TermsIn(e), <<",", " ">>)) : e \in Enumerations(rows) }

\* STRING_AGG(DISTINCT term, ', ') over the rows of one group: NULL over no
\* value, else the distinct values joined by ', ' in an order the warehouse
\* chooses.
STRING_AGG(rows) ==
    IF rows = {} THEN {NULL}
    ELSE { Some(JoinWith(e, <<",", " ">>)) : e \in Enumerations({ Val(t.term) : t \in rows }) }

WithTerms(ab, agg) ==
    [ objectid |-> ab.objectid, title |-> ab.title, medium |-> ab.medium,
      classification |-> ab.classification, artist_name |-> ab.artist_name,
      artist_dates |-> ab.artist_dates,
      artist_nationality |-> ab.artist_nationality,
      artist_birth_year |-> ab.artist_birth_year,
      artist_death_year |-> ab.artist_death_year, iiifurl |-> ab.iiifurl,
      image_width |-> ab.image_width, image_height |-> ab.image_height,
      location_description |-> ab.location_description, building |-> ab.building,
      creation_start_year |-> ab.creation_start_year, all_terms |-> agg ]

\* artwork_with_terms: GROUP BY every column of artwork_base, so one row per
\* row of artwork_base.  The set of tables the warehouse may produce.
artwork_with_terms(st, base) ==
    { { WithTerms(ab, f[ab]) : ab \in base } :
        f \in { g \in [base -> UNION { STRING_AGG(AggregatedTerms(st, ab.objectid)) : ab \in base }] :
                  \A ab \in base : g[ab] \in STRING_AGG(AggregatedTerms(st, ab.objectid)) } }

\* ORDER BY CASE WHEN artist_name IS NOT NULL THEN 0 ELSE 1 END, creation_start_year DESC
ArtistRank(r) == IF NotNull(r.artist_name) THEN 0 ELSE 1

\* YearBefore for an ascending sort: NULL first, then increasing.
YearBeforeAscending(a, b) ==
    /\ NotNull(b.creation_start_year)
    /\ \/ IsNull(a.creation_start_year)
       \/ Val(a.creation_start_year) < Val(b.creation_start_year)

\* DESC places NULL last.
YearBefore(a, b) ==
    /\ NotNull(a.creation_start_year)
    /\ \/ IsNull(b.creation_start_year)
       \/ Val(a.creation_start_year) > Val(b.creation_start_year)

\* a must come before b.
OrderedBefore(a, b) ==
    \/ ArtistRank(a) < ArtistRank(b)
    \/ ArtistRank(a) = ArtistRank(b) /\ YearBefore(a, b)

\* Every order of the rows the ORDER BY allows: rows the sort keys do not
\* separate come in either order.
RECURSIVE OrderBy(_)
OrderBy(rows) ==
    IF rows = {} THEN {<<>>}
    ELSE UNION { { <<r>> \o rest : rest \in OrderBy(rows \ {r}) } :
                   r \in { x \in rows : \A y \in rows : ~OrderedBefore(y, x) } }

\* Limit that keeps one row too many.
LimitPlusOne(rows, n) == SubSeq(rows, 1, Min(n + 1, Len(rows)))

\* LIMIT n
Limit(rows, n) == SubSeq(rows, 1, Min(n, Len(rows)))

\* The rows the final SELECT may return, as a set of sequences.
QueryRows(st, kws, stype, n) ==
    LET base == artwork_base(st, where_clauses(kws, stype), params(kws, stype))
    IN  { Limit(rows, n) : rows \in UNION { OrderBy(t) : t \in artwork_with_terms(st, base) } }

(***************************************************************************)
(* query_artworks_enhanced as a whole (app.py 31-127): the outcomes of one *)
(* call, each an exception raised or a table returned.                     *)
(***************************************************************************)
Raised(e) == [outcome |-> e, rows |-> <<>>]
Returned(rows) == [outcome |-> "returned", rows |-> rows]

query_artworks_enhanced(st, kws, stype, n) ==
    IF kws # <<>> /\ stype \notin SearchTypes
    THEN \* where_clause is never assigned: where_clauses.append(where_clause) fails
         { Raised("UnboundLocalError") }
    ELSE IF kws = <<>> \/ n < 0
    THEN \* "AND ()" or "LIMIT -1": the warehouse rejects the statement, if it
         \* is reached at all
         { Raised("BadRequest"), Raised("ServiceUnavailable") }
    ELSE \* the statement runs, unless the warehouse call itself fails
         { Raised("ServiceUnavailable") }
         \cup { Returned(rows) : rows \in QueryRows(st, kws, stype, n) }

(***************************************************************************)
(* Inputs of the model.                                                    *)
(***************************************************************************)
KeywordPool == { <<>>, <<"a", "B">>, <<"_">>, <<"c">> }

RECURSIVE ListsOfLength(_, _)
ListsOfLength(S, n) ==
    IF n = 0 THEN {<<>>}
    ELSE { <<x>> \o t : x \in S, t \in ListsOfLength(S, n - 1) }

KeywordLists == UNION { ListsOfLength(KeywordPool, n) : n \in 0..MaxKeywords }

SearchTypeArgs == SearchTypes \cup {"everything"}

Limits == (-1)..MaxLimit

DefaultLimit == 10

(***************************************************************************)
(* Specification Spec: one call of query_artworks_enhanced on any store of *)
(* the family, with any arguments.                                         *)
(***************************************************************************)
Init ==
    /\ store \in Stores
    /\ keywords = <<>>
    /\ search_type = "comprehensive"
    /\ limit = DefaultLimit
    /\ outcome = "idle"
    /\ result = <<>>
    /\ pc = "call"
    /\ show_detailed_info = FALSE
    /\ response = <<>>
    /\ row = 0
    /\ ui = <<>>
    /\ calls = <<>>
    /\ LoaderIdle

Search ==
    /\ outcome = "idle"
    /\ \E kws \in KeywordLists, stype \in SearchTypeArgs, n \in Limits :
         \E r \in query_artworks_enhanced(store, kws, stype, n) :
            /\ keywords' = kws
            /\ search_type' = stype
            /\ limit' = n
            /\ outcome' = r.outcome
            /\ result' = r.rows
    /\ UNCHANGED loaderVars
    /\ UNCHANGED <<store, requestVars>>

Next == Search

Spec == Init /\ [][Next]_vars

(***************************************************************************)
(* The detail fetchers (app.py 129-213): get_artwork_provenance,           *)
(* get_artwork_text_entries and get_related_artworks, each one statement   *)
(* evaluated on the tables it reads.                                       *)
(***************************************************************************)
\* The characters of the model's texts in code point order, the order in
\* which the warehouse compares STRING values.
CodePointOrder ==
    <<" ", ",", ".", "0", "1", "2", "3", "4", "5", "6", "7", "8", "9">>
        \o UpperLetters \o <<"_">> \o LowerLetters

\* a < b on STRING values.
RECURSIVE TextBefore(_, _)
TextBefore(a, b) ==
    LET CodePoint(ch) == CHOOSE n \in 1..Len(CodePointOrder) : CodePointOrder[n] = ch
    IN  IF b = <<>> THEN FALSE
        ELSE IF a = <<>> THEN TRUE
        ELSE IF Head(a) # Head(b) THEN CodePoint(Head(a)) < CodePoint(Head(b))
        ELSE TextBefore(Tail(a), Tail(b))

\* a < b under ORDER BY (ascending) on a nullable INTEGER column: NULL
\* sorts first.
IntegerBefore(a, b) ==
    /\ NotNull(b)
    /\ IsNull(a) \/ Val(a) < Val(b)

\* a < b under ORDER BY (ascending) on a nullable STRING column.
StringBefore(a, b) ==
    /\ NotNull(b)
    /\ IsNull(a) \/ TextBefore(Val(a), Val(b))

\* Every order of rows an ORDER BY allows, where before holds the pairs
\* <<a, b>> of rows whose keys put a before b: rows the keys do not
\* separate come in either order.
OrderedBy(rows, before) ==
    { e \in Enumerations(rows) :
        \A i, j \in 1..Len(e) : i < j => <<e[j], e[i]>> \notin before }

\* get_artwork_provenance with 'artist' among the roletypes it keeps.
ProvenanceRoletypesWithArtist == {"owner", "donor", "artist"}

\* AND oc.roletype IN ('owner', 'donor')
ProvenanceRoletypes == {"owner", "donor"}

\* def get_artwork_provenance(object_id): the outcomes of one call.
get_artwork_provenance(st, object_id) ==
    LET \* FROM objects_constituents oc JOIN constituents c ON ... WHERE ...
        joined == { j \in st.objects_constituents \X st.constituents :
                      /\ j[1].constituentid = j[2].constituentid
                      /\ j[1].objectid = object_id
                      /\ j[1].roletype \in ProvenanceRoletypes }
        \* ORDER BY oc.displayorder
        before == { p \in joined \X joined :
                      IntegerBefore(p[1][1].displayorder, p[2][1].displayorder) }
        Select(j) == [roletype |-> j[1].roletype, role |-> j[1].role,
                      displaydate |-> j[1].displaydate,
                      name |-> j[2].preferreddisplayname,
                      displayorder |-> j[1].displayorder]
    IN  { Raised("ServiceUnavailable") }
        \cup { Returned([n \in 1..Len(e) |-> Select(e[n])]) : e \in OrderedBy(joined, before) }

\* get_artwork_text_entries without its WHERE clause.
get_artwork_text_entries_of_any_object(st, object_id) ==
    LET rows == st.objects_text_entries
        before == { p \in rows \X rows :
                      \/ StringBefore(p[1].texttype, p[2].texttype)
                      \/ /\ p[1].texttype = p[2].texttype
                         /\ IntegerBefore(p[1].year, p[2].year) }
        Select(t) == [texttype |-> t.texttype, text |-> t.text, year |-> t.year]
    IN  { Raised("ServiceUnavailable") }
        \cup { Returned([n \in 1..Len(e) |-> Select(e[n])]) :
                 e \in OrderedBy(rows, before) }

\* def get_artwork_text_entries(object_id): the outcomes of one call.
get_artwork_text_entries(st, object_id) ==
    LET \* FROM objects_text_entries WHERE objectid = ?
        rows == { t \in st.objects_text_entries : t.objectid = object_id }
        \* ORDER BY texttype, year
        before == { p \in rows \X rows :
                      \/ StringBefore(p[1].texttype, p[2].texttype)
                      \/ /\ p[1].texttype = p[2].texttype
                         /\ IntegerBefore(p[1].year, p[2].year) }
        Select(t) == [texttype |-> t.texttype, text |-> t.text, year |-> t.year]
    IN  { Raised("ServiceUnavailable") }
        \cup { Returned([n \in 1..Len(e) |-> Select(e[n])]) : e \in OrderedBy(rows, before) }

\* current_artwork without LIMIT 1: every artist of the seed object.
current_artwork_all_artists(st, object_id) ==
    { { [objectid |-> j[1].objectid, artist_id |-> j[3].constituentid] :
          j \in { x \in st.objects \X st.objects_constituents \X st.constituents :
                    /\ x[1].objectid = x[2].objectid
                    /\ x[2].constituentid = x[3].constituentid
                    /\ x[1].objectid = object_id
                    /\ x[2].roletype = "artist" } } }

\* WITH current_artwork AS (... LIMIT 1): the tables the CTE may be, one
\* for each row the warehouse may keep.
current_artwork(st, object_id) ==
    LET rows == { [objectid |-> j[1].objectid, artist_id |-> j[3].constituentid] :
                    j \in { x \in st.objects \X st.objects_constituents \X st.constituents :
                              /\ x[1].objectid = x[2].objectid
                              /\ x[2].constituentid = x[3].constituentid
                              /\ x[1].objectid = object_id
                              /\ x[2].roletype = "artist" } }
    IN  IF rows = {} THEN { {} } ELSE { {r} : r \in rows }

\* LIMIT 5 of get_related_artworks
RelatedLimit == 5

\* def get_related_artworks(object_id): the outcomes of one call.
get_related_artworks(st, object_id) ==
    LET \* FROM current_artwork ca JOIN objects_constituents oc ... JOIN objects o ...
        \* LEFT JOIN published_images pi ... WHERE ...
        Selected(ca) ==
            UNION { { [objectid |-> j[3].objectid, title |-> j[3].title,
                       displaydate |-> j[3].displaydate, iiifurl |-> pi.iiifurl,
                       relation_type |-> "Same Artist"] :
                         pi \in { x \in JoinImages(st, j[3]) : NotNull(x.iiifurl) } } :
                    j \in { x \in ca \X st.objects_constituents \X st.objects :
                              /\ x[1].artist_id = x[2].constituentid
                              /\ x[2].objectid = x[3].objectid
                              /\ x[3].objectid # x[1].objectid
                              /\ x[2].roletype = "artist" } }
        \* ORDER BY o.displaydate
        Ordered(rows) ==
            OrderedBy(rows, { p \in rows \X rows :
                                StringBefore(p[1].displaydate, p[2].displaydate) })
    IN  { Raised("ServiceUnavailable") }
        \cup { Returned(Limit(e, RelatedLimit)) :
                 e \in UNION { Ordered(Selected(ca)) :
                                 ca \in current_artwork(st, object_id) } }

(***************************************************************************)
(* The request handler (app.py 216-420).                                   *)
(***************************************************************************)
\* st.sidebar.slider("Number of Results", min_value=5, max_value=20, value=10)
SliderMin == 5
SliderMax == 20
SliderDefault == 10
SliderValues == {SliderMin, SliderDefault, SliderMax}

\* The characters outside ASCII for which str.isspace() is true, each
\* written as the name of its code point: U+0085 (next line), U+00A0
\* (no-break space), U+1680, U+2000 to U+200A, U+2028, U+2029, U+202F,
\* U+205F and U+3000.
UnicodeSpaces ==
    { "U+0085", "U+00A0", "U+1680", "U+2000", "U+2001", "U+2002", "U+2003",
      "U+2004", "U+2005", "U+2006", "U+2007", "U+2008", "U+2009", "U+200A",
      "U+2028", "U+2029", "U+202F", "U+205F", "U+3000" }

\* The characters str.strip() removes, those for which str.isspace() is
\* true: in ASCII the space, tab, line feed, carriage return, form feed,
\* U+000B and U+001C to U+001F, and outside ASCII the UnicodeSpaces.
IsSpace(ch) ==
    ch \in {" ", "\t", "\n", "\r", "\f", "", "", "", "", ""} \cup UnicodeSpaces

\* str.strip()
RECURSIVE LStrip(_)
LStrip(s) == IF s # <<>> /\ IsSpace(Head(s)) THEN LStrip(Tail(s)) ELSE s

RECURSIVE RStrip(_)
RStrip(s) ==
    IF s # <<>> /\ IsSpace(s[Len(s)]) THEN RStrip(SubSeq(s, 1, Len(s) - 1)) ELSE s

Strip(s) == RStrip(LStrip(s))

\* str.split(','): the pieces between commas; a text without comma is one piece.
RECURSIVE Split(_)
Split(s) ==
    LET commas == { i \in 1..Len(s) : s[i] = "," }
    IN  IF commas = {} THEN <<s>>
        ELSE LET first == CHOOSE i \in commas : \A k \in commas : i <= k
             IN  <<SubSeq(s, 1, first - 1)>> \o Split(SubSeq(s, first + 1, Len(s)))

\* ExtractKeywords that leaves out the pieces that are empty once trimmed.
ExtractKeywordsNonEmpty(text) ==
    SelectSeq([n \in 1..Len(Split(Strip(text))) |-> Strip(Split(Strip(text))[n])],
              LAMBDA k : k # <<>>)

\* keywords_text = response.text.strip()
\* keywords = [keyword.strip() for keyword in keywords_text.split(',')]
ExtractKeywords(text) ==
    LET pieces == Split(Strip(text))
    IN  [n \in 1..Len(pieces) |-> Strip(pieces[n])]

\* The texts the model answers with.
Responses ==
    { <<"a", "B", ",", " ", "c">>,
      <<"x">>,
      <<>>,
      <<"\n", "c", " ", ",", " ">>,
      <<"_", ",", "x">>,
      <<"", "x", "U+00A0", ",", "U+2003", "c", "">>,
      <<"U+00E9", "U+0085">> }

\* OnException that reports a failure as an empty result.
OnExceptionShowWarning(page) == page \o <<"warning_no_artworks", "info_suggestions">>

\* except Exception as e: st.error(...); st.info(...)
OnException(page) == page \o <<"error", "info_enter_keywords">>

\* One external call of the handler: what was called, for which object (0
\* when the call takes none), and whether it raised.
Call(fn, id, raised) == [fn |-> fn, objectid |-> id, raised |-> raised]

\* The three detail fetchers, in the order the handler calls them.
DetailFetchers ==
    <<"get_artwork_provenance", "get_artwork_text_entries", "get_related_artworks">>

\* A try block that ends before the detail fetchers are called.
TryBlockWithoutFetchers == {"generate_content", "query_artworks_enhanced"}

\* The calls made between try: and except Exception.
TryBlock ==
    {"generate_content", "query_artworks_enhanced"}
        \cup { DetailFetchers[n] : n \in 1..Len(DetailFetchers) }

\* Where an exception raised by a call of fn takes the script: into the
\* except clause, or out of the script.
Raise(fn, page) ==
    IF fn \in TryBlock
    THEN [pc |-> "done", ui |-> OnException(page)]
    ELSE [pc |-> "crashed", ui |-> page]

RequestInit ==
    /\ store \in RequestStores
    /\ keywords = <<>>
    /\ search_type = "comprehensive"
    /\ limit = DefaultLimit
    /\ outcome = "idle"
    /\ result = <<>>
    /\ pc = "idle"
    /\ show_detailed_info = FALSE
    /\ response = <<>>
    /\ row = 0
    /\ ui = <<>>
    /\ calls = <<>>
    /\ LoaderIdle

\* The user sets the sidebar widgets and enters a theme: the script runs.
SubmitTheme ==
    /\ pc = "idle"
    /\ search_type' \in SearchTypes
    /\ limit' \in SliderValues
    /\ show_detailed_info' \in BOOLEAN
    /\ pc' = "generate"
    /\ UNCHANGED loaderVars
    /\ UNCHANGED <<store, keywords, outcome, result, response, row, ui, calls>>

\* response = model.generate_content(prompt) and the split of its text.
GenerateKeywords ==
    /\ pc = "generate"
    /\ \/ \E text \in Responses :
             /\ calls' = Append(calls, Call("generate_content", 0, FALSE))
             /\ response' = text
             /\ keywords' = ExtractKeywords(text)
             /\ ui' = Append(ui, "success_analysis")
             /\ pc' = "search"
       \/ /\ calls' = Append(calls, Call("generate_content", 0, TRUE))
          /\ ui' = Raise("generate_content", ui).ui
          /\ pc' = Raise("generate_content", ui).pc
          /\ UNCHANGED <<response, keywords>>
    /\ UNCHANGED loaderVars
    /\ UNCHANGED <<store, search_type, limit, outcome, result, show_detailed_info, row>>

\* selected_artworks = query_artworks_enhanced(keywords, search_type, result_limit)
SearchCollection ==
    /\ pc = "search"
    /\ \E r \in query_artworks_enhanced(store, keywords, search_type, limit) :
          /\ calls' = Append(calls, Call("query_artworks_enhanced", 0,
                                         r.outcome # "returned"))
          /\ outcome' = r.outcome
          /\ result' = r.rows
          /\ IF r.outcome = "returned"
             THEN pc' = "display" /\ ui' = ui
             ELSE /\ pc' = Raise("query_artworks_enhanced", ui).pc
                  /\ ui' = Raise("query_artworks_enhanced", ui).ui
    /\ UNCHANGED loaderVars
    /\ UNCHANGED <<store, keywords, search_type, limit, show_detailed_info, response, row>>

\* if not selected_artworks.empty: header ... else: warning and suggestions
DisplayResults ==
    /\ pc = "display"
    /\ IF result # <<>>
       THEN /\ ui' = ui \o <<"header", "found_count">>
            /\ pc' = "rows"
            /\ row' = 1
       ELSE /\ ui' = ui \o <<"warning_no_artworks", "info_suggestions">>
            /\ pc' = "done"
            /\ row' = row
    /\ UNCHANGED loaderVars
    /\ UNCHANGED <<store, keywords, search_type, limit, outcome, result,
                   show_detailed_info, response, calls>>

\* text_entries['texttype'].unique(): the values of a column, each once,
\* in the order of their first appearance.
RECURSIVE unique(_)
unique(column) ==
    IF column = <<>> THEN <<>>
    ELSE <<Head(column)>> \o unique(SelectSeq(Tail(column), LAMBDA v : v # Head(column)))

\* The block that renders the text entries (app.py 357-365): whether it
\* raises, and whether it has put anything on the page by then.  The types
\* are rendered in turn, each as a heading followed by its entries: a type
\* that is NULL raises at text_type.replace before its heading, an entry
\* whose text is NULL raises at entry['text'][:200] after it.
RenderTextEntries(text_entries) ==
    LET types == unique([n \in 1..Len(text_entries) |-> text_entries[n].texttype])
        failing == { n \in 1..Len(types) :
                       \/ IsNull(types[n])
                       \/ \E m \in 1..Len(text_entries) :
                             /\ text_entries[m].texttype = types[n]
                             /\ IsNull(text_entries[m].text) }
        first == CHOOSE n \in failing : \A k \in failing : n <= k
    IN  [raised |-> failing # {},
         shown |-> failing = {} \/ first > 1 \/ NotNull(types[first])]

\* One pass of the loop over selected_artworks up to the detailed
\* information: the image and the basic information of the row.  With
\* details off the pass ends here, with the credit line and the divider.
DisplayRow ==
    /\ pc = "rows"
    /\ row <= Len(result)
    /\ ui' = Append(ui, "artwork")
    /\ IF show_detailed_info
       THEN pc' = "provenance" /\ row' = row
       ELSE pc' = pc /\ row' = row + 1
    /\ UNCHANGED loaderVars
    /\ UNCHANGED <<store, keywords, search_type, limit, outcome, result,
                   show_detailed_info, response, calls>>

\* provenance_df = get_artwork_provenance(object_id) and its rendering.
ShowProvenance ==
    /\ pc = "provenance"
    /\ \E r \in get_artwork_provenance(store, result[row].objectid) :
          /\ calls' = Append(calls, Call("get_artwork_provenance", result[row].objectid,
                                         r.outcome # "returned"))
          /\ IF r.outcome = "returned"
             THEN /\ ui' = Append(ui, "get_artwork_provenance")
                  /\ pc' = "text_entries"
             ELSE /\ ui' = Raise("get_artwork_provenance", ui).ui
                  /\ pc' = Raise("get_artwork_provenance", ui).pc
    /\ UNCHANGED loaderVars
    /\ UNCHANGED <<store, keywords, search_type, limit, outcome, result,
                   show_detailed_info, response, row>>

\* text_entries = get_artwork_text_entries(object_id) and its rendering.
ShowTextEntries ==
    /\ pc = "text_entries"
    /\ \E r \in get_artwork_text_entries(store, result[row].objectid) :
          /\ calls' = Append(calls, Call("get_artwork_text_entries", result[row].objectid,
                                         r.outcome # "returned"))
          /\ IF r.outcome = "returned"
             THEN LET rendered == RenderTextEntries(r.rows)
                      page == IF rendered.shown
                              THEN Append(ui, "get_artwork_text_entries") ELSE ui
                  IN  IF rendered.raised
                      THEN /\ ui' = Raise("get_artwork_text_entries", page).ui
                           /\ pc' = Raise("get_artwork_text_entries", page).pc
                      ELSE /\ ui' = page
                           /\ pc' = "related"
             ELSE /\ ui' = Raise("get_artwork_text_entries", ui).ui
                  /\ pc' = Raise("get_artwork_text_entries", ui).pc
    /\ UNCHANGED loaderVars
    /\ UNCHANGED <<store, keywords, search_type, limit, outcome, result,
                   show_detailed_info, response, row>>

\* related_df = get_related_artworks(object_id) and its rendering, then the
\* credit line and the divider that end the pass.
ShowRelatedArtworks ==
    /\ pc = "related"
    /\ \E r \in get_related_artworks(store, result[row].objectid) :
          /\ calls' = Append(calls, Call("get_related_artworks", result[row].objectid,
                                         r.outcome # "returned"))
          /\ IF r.outcome = "returned"
             THEN /\ ui' = Append(ui, "get_related_artworks")
                  /\ pc' = "rows"
                  /\ row' = row + 1
             ELSE /\ ui' = Raise("get_related_artworks", ui).ui
                  /\ pc' = Raise("get_related_artworks", ui).pc
                  /\ row' = row
    /\ UNCHANGED loaderVars
    /\ UNCHANGED <<store, keywords, search_type, limit, outcome, result,
                   show_detailed_info, response>>

\* After the loop: the sidebar statistics.
DisplayStatistics ==
    /\ pc = "rows"
    /\ row > Len(result)
    /\ ui' = Append(ui, "statistics")
    /\ pc' = "done"
    /\ UNCHANGED loaderVars
    /\ UNCHANGED <<store, keywords, search_type, limit, outcome, result,
                   show_detailed_info, response, row, calls>>

RequestNext ==
    \/ SubmitTheme
    \/ GenerateKeywords
    \/ SearchCollection
    \/ DisplayResults
    \/ DisplayRow
    \/ ShowProvenance
    \/ ShowTextEntries
    \/ ShowRelatedArtworks
    \/ DisplayStatistics

RequestSpec == RequestInit /\ [][RequestNext]_vars

(***************************************************************************)
(* Specification DetailSpec: one call of one detail fetcher, with any      *)
(* object id, on the tables the fetchers read.                             *)
(***************************************************************************)
\* A dataset from the tables the fetchers read; link rows are given as
\* <<objectid, constituentid, roletype, displayorder>>, objects as
\* <<objectid, title, displaydate>>, text entries as <<objectid, texttype, year>>.
DetailStore(objects, links, images, entries) ==
    [ objects |-> { [objectid |-> o[1], title |-> o[2], displaydate |-> o[3]] : o \in objects },
      objects_constituents |->
          { [objectid |-> l[1], constituentid |-> l[2], roletype |-> l[3],
             role |-> Some(l[3]), displaydate |-> NULL, displayorder |-> l[4]] : l \in links },
      constituents |-> Constituents,
      published_images |->
          { [objectid |-> i[1], iiifurl |-> i[2][1], viewtype |-> i[2][2], width |-> i[2][3],
             height |-> i[2][4]]
              : i \in images },
      objects_text_entries |->
          { [objectid |-> t[1], texttype |-> Some(t[2]), text |-> Some(T_Ab), year |-> t[3]]
              : t \in entries } ]

\* The objects of the detail stores; display dates are free text.
DetailObjects ==
    { <<1, Some(T_Ab), Some(<<"1", "7", "0", "0">>)>>,
      <<2, Some(T_c), Some(<<"c", ".", " ", "1", "6", "5", "0">>)>>,
      <<3, Some(T_D), Some(<<"1", "6", "5", "0">>)>>,
      <<4, NULL, NULL>> }

\* Up to three links out of: owners and donors of object 1 with and without
\* a display order, an artist of object 1, an owner whose constituent 4 is
\* not in constituents, and an owner of object 2.
ProvenanceStores ==
    { DetailStore(DetailObjects, links, {}, {}) :
        links \in { s \in SUBSET { <<1, 1, "owner", Some(2)>>, <<1, 2, "donor", Some(1)>>,
                                   <<1, 2, "owner", Some(2)>>, <<1, 3, "owner", NULL>>,
                                   <<1, 1, "artist", Some(1)>>, <<1, 4, "owner", Some(3)>>,
                                   <<2, 1, "owner", Some(1)>> } : Cardinality(s) <= 3 } }

TextEntryStores ==
    { DetailStore(DetailObjects, {}, {}, entries) :
        entries \in SUBSET { <<1, T_c, Some(1990)>>, <<1, T_c, NULL>>,
                             <<1, T_Ab, Some(1995)>>, <<2, T_c, Some(1980)>> } }

\* Object 1 with none, one or two artists, or one that is not in
\* constituents; objects 2, 3 and 4 linked to artist 1 or 2, with and
\* without primary images.
RelatedStores ==
    { DetailStore(DetailObjects,
                  { <<1, a, "artist", Some(1)>> : a \in seed }
                      \cup { <<2, 1, "artist", Some(1)>>, <<3, a3, "artist", Some(1)>>,
                             <<4, 1, r4, Some(1)>> },
                  { <<1, PrimaryU1>> } \cup { <<2, i>> : i \in i2 }
                      \cup { <<3, i>> : i \in i3 } \cup { <<4, i>> : i \in i4 },
                  {}) :
        seed \in {{}, {1}, {1, 2}, {4}},
        a3 \in {1, 2},
        r4 \in {"artist", "owner"},
        i2 \in {{PrimaryU1}, {PrimaryU1, PrimaryU2}, {PrimaryNoUrl}, {AlternateU1}},
        i3 \in {{}, {PrimaryU1, PrimaryU2}},
        i4 \in {{PrimaryU1}, {PrimaryU1, PrimaryU2}} }

DetailStores == ProvenanceStores \cup TextEntryStores \cup RelatedStores

\* The object ids a fetcher is called with; no store holds object 9.
ObjectIdArgs == {1, 2, 9}

DetailInit ==
    /\ store \in DetailStores
    /\ keywords = <<>>
    /\ search_type = "comprehensive"
    /\ limit = DefaultLimit
    /\ outcome = "idle"
    /\ result = <<>>
    /\ pc = "call"
    /\ show_detailed_info = TRUE
    /\ response = <<>>
    /\ row = 0
    /\ ui = <<>>
    /\ calls = <<>>
    /\ LoaderIdle

\* One call of the fetcher fn with object_id that ends as r.
Fetch(fn, object_id, r) ==
    /\ outcome = "idle"
    /\ calls' = <<Call(fn, object_id, r.outcome # "returned")>>
    /\ outcome' = r.outcome
    /\ result' = r.rows
    /\ UNCHANGED loaderVars
    /\ UNCHANGED <<store, keywords, search_type, limit, pc, show_detailed_info,
                   response, row, ui>>

GetArtworkProvenance ==
    \E object_id \in ObjectIdArgs :
        \E r \in get_artwork_provenance(store, object_id) :
            Fetch("get_artwork_provenance", object_id, r)

GetArtworkTextEntries ==
    \E object_id \in ObjectIdArgs :
        \E r \in get_artwork_text_entries(store, object_id) :
            Fetch("get_artwork_text_entries", object_id, r)

GetRelatedArtworks ==
    \E object_id \in ObjectIdArgs :
        \E r \in get_related_artworks(store, object_id) :
            Fetch("get_related_artworks", object_id, r)

DetailNext ==
    \/ GetArtworkProvenance
    \/ GetArtworkTextEntries
    \/ GetRelatedArtworks

DetailSpec == DetailInit /\ [][DetailNext]_vars

(***************************************************************************)
(* The ingestion loader (scripts/load_to_bigquery.py): the declared        *)
(* tables, the loading order, the clean-up of column names, the filter of  *)
(* published_images and the loop of main().                                *)
(***************************************************************************)
T_objectid == <<"o", "b", "j", "e", "c", "t", "i", "d">>

T_depictstmsobjectid ==
    <<"d", "e", "p", "i", "c", "t", "s", "t", "m", "s">> \o T_objectid

\* The same header as a CSV export may spell it.
T_DepictsTMSObjectID ==
    <<"D", "e", "p", "i", "c", "t", "s", "T", "M", "S", "O", "b", "j", "e", "c", "t", "I", "D">>

T_constituentid ==
    <<"c", "o", "n", "s", "t", "i", "t", "u", "e", "n", "t", "i", "d">>

\* TABLE_CONFIGS, in the order of the dict: name, column_renames (pairs
\* from, to) and dependencies of each table.
TABLE_CONFIGS ==
    LET Config(name, renames, deps) ==
            [name |-> name, column_renames |-> renames, dependencies |-> deps]
    IN  << Config("objects", {}, <<>>),
           Config("constituents", {}, <<>>),
           Config("objects_constituents", {}, <<"objects", "constituents">>),
           Config("objects_terms", {}, <<"objects">>),
           Config("published_images", {<<T_depictstmsobjectid, T_objectid>>}, <<"objects">>),
           Config("alternative_identifiers", {}, <<>>),
           Config("constituents_altnames", {}, <<"constituents">>),
           Config("constituents_text_entries", {}, <<"constituents">>),
           Config("locations", {}, <<>>),
           Config("media_items", {}, <<>>),
           Config("media_relationships", {}, <<"media_items">>),
           Config("object_associations", {}, <<"objects">>),
           Config("objects_dimensions", {}, <<"objects">>),
           Config("objects_historical_data", {}, <<"objects">>),
           Config("objects_text_entries", {}, <<"objects">>),
           Config("preferred_locations", {}, <<>>),
           Config("preferred_locations_tms_locations", {},
                  <<"preferred_locations", "locations">>) >>

TableNames == { TABLE_CONFIGS[n].name : n \in 1..Len(TABLE_CONFIGS) }

\* TABLE_CONFIGS[table_id]
ConfigOf(table_id) ==
    TABLE_CONFIGS[CHOOSE n \in 1..Len(TABLE_CONFIGS) : TABLE_CONFIGS[n].name = table_id]

\* A loading order that leaves out the tables with dependencies.
get_dependency_order_without_dependents ==
    LET no_deps == SelectSeq(TABLE_CONFIGS, LAMBDA c : c.dependencies = <<>>)
    IN  [n \in 1..Len(no_deps) |-> no_deps[n].name]

\* def get_dependency_order(): the tables without dependencies in dict
\* order, then the others sorted by their number of dependencies; the sort
\* is stable, so tables with as many dependencies stay in dict order.
get_dependency_order ==
    LET no_deps == SelectSeq(TABLE_CONFIGS, LAMBDA c : c.dependencies = <<>>)
        with_deps == SelectSeq(TABLE_CONFIGS, LAMBDA c : c.dependencies # <<>>)
        most == CHOOSE k \in 0..Len(TABLE_CONFIGS) :
                    /\ \A n \in 1..Len(with_deps) : Len(with_deps[n].dependencies) <= k
                    /\ k = 0 \/ \E n \in 1..Len(with_deps) : Len(with_deps[n].dependencies) = k
        RECURSIVE Sorted(_)
        Sorted(k) ==
            IF k > most THEN <<>>
            ELSE SelectSeq(with_deps, LAMBDA c : Len(c.dependencies) = k) \o Sorted(k + 1)
        ordered == no_deps \o Sorted(1)
    IN  [n \in 1..Len(ordered) |-> ordered[n].name]

\* A clean-up of the column names that leaves a leading digit as it is.
sanitize_column_names_without_prefix(columns) ==
    LET Digits == {"0", "1", "2", "3", "4", "5", "6", "7", "8", "9"}
        IsAlnum(ch) ==
            \/ ch \in Digits
            \/ \E n \in 1..Len(LowerLetters) : ch \in {LowerLetters[n], UpperLetters[n]}
        Sanitized(col) ==
            LET lowered == Lower(col)
                replaced == [n \in 1..Len(lowered) |->
                               IF lowered[n] \in {" ", "-"} THEN "_" ELSE lowered[n]]
                bare == SelectSeq(replaced, LAMBDA ch : ch \notin {"(", ")"})
            IN  SelectSeq(bare, LAMBDA ch : IsAlnum(ch) \/ ch = "_")
    IN  [n \in 1..Len(columns) |-> Sanitized(columns[n])]

\* def sanitize_column_names(df): the new names of the columns.
sanitize_column_names(columns) ==
    LET Digits == {"0", "1", "2", "3", "4", "5", "6", "7", "8", "9"}
        IsAlnum(ch) ==
            \/ ch \in Digits
            \/ \E n \in 1..Len(LowerLetters) : ch \in {LowerLetters[n], UpperLetters[n]}
        Sanitized(col) ==
            LET lowered == Lower(col)
                replaced == [n \in 1..Len(lowered) |->
                               IF lowered[n] \in {" ", "-"} THEN "_" ELSE lowered[n]]
                bare == SelectSeq(replaced, LAMBDA ch : ch \notin {"(", ")"})
                kept == SelectSeq(bare, LAMBDA ch : IsAlnum(ch) \/ ch = "_")
            IN  IF kept # <<>> /\ kept[1] \in Digits
                THEN <<"c", "o", "l", "_">> \o kept
                ELSE kept
    IN  [n \in 1..Len(columns) |-> Sanitized(columns[n])]

\* A loader that applies no custom rename.
RenameNothing(columns, column_renames) == columns

\* df.rename(columns=config['column_renames'])
Rename(columns, column_renames) ==
    [n \in 1..Len(columns) |->
        IF \E r \in column_renames : r[1] = columns[n]
        THEN (CHOOSE r \in column_renames : r[1] = columns[n])[2]
        ELSE columns[n]]

\* df[name]: the values of the column called name, or no value at all when
\* the frame has no such column.
ColumnValues(df, name) ==
    IF \E n \in 1..Len(df.columns) : df.columns[n] = name
    THEN Some({ r[CHOOSE n \in 1..Len(df.columns) : df.columns[n] = name] : r \in df.rows })
    ELSE NULL

\* def filter_published_images(df): what a call may give on the dataset st,
\* a frame or, when df has no objectid column, a KeyError (NULL).
filter_published_images(df, st) ==
    LET \* SELECT objectid FROM objects
        valid_object_ids ==
            IF IsNull(st["objects"]) THEN NULL
            ELSE ColumnValues(Val(st["objects"]), T_objectid)
        \* df[df['objectid'].isin(valid_object_ids)]
        filtered_df ==
            IF IsNull(ColumnValues(df, T_objectid)) THEN NULL
            ELSE Some([columns |-> df.columns,
                       rows |-> { r \in df.rows :
                                    Val(ColumnValues([df EXCEPT !.rows = {r}], T_objectid))
                                        \subseteq Val(valid_object_ids) }])
    IN  \* the query raises: the frame comes back as it is
        { Some(df) }
        \cup IF IsNull(valid_object_ids) THEN {}
             ELSE IF Val(valid_object_ids) = {} THEN { Some(df) }
             ELSE { filtered_df }

(***************************************************************************)
(* Specification LoaderSpec: one run of main() on a data directory and a   *)
(* dataset left by no or by an earlier run.                                *)
(***************************************************************************)
\* The loads of one run that fail, at most.
MaxFailedLoads == 1

\* A CSV file or a frame read from it: the header and the rows.
Frame(columns, rows) == [columns |-> columns, rows |-> rows]

\* The header of a CSV of one column that is no key of the claims: names
\* with capitals, a space, a hyphen, parentheses, another special
\* character, a leading digit and a leading underscore.
PlainHeader(t) ==
    CASE t = "locations" -> << <<"L", "o", "c", "-", "I", "D">> >>
      [] t = "media_items" -> << <<"1", "s", "t">> >>
      [] t = "media_relationships" -> << <<"R", ".", "b">> >>
      [] t = "object_associations" -> << <<"O", "b", "j", " ", "(", "I", "D", ")">> >>
      [] t = "preferred_locations" -> << <<"2", "B", "%">> >>
      [] t = "preferred_locations_tms_locations" -> << <<"_", "9">> >>
      [] OTHER -> << <<"i", "d">> >>

\* The rows of objects.csv, of constituents.csv and of published_images.csv
\* in the data directories, and how published_images.csv spells its
\* depictstmsobjectid column: no object and an image of object 1; object 1
\* and images of objects 1 and 9; objects 1 and 2 with the same images
\* under a header with capitals; and objects 1 and 2, constituents 1 and 2
\* and the image of object 1.
DataDirRows ==
    { << {}, { <<1>> }, { <<10, 1>> }, T_depictstmsobjectid >>,
      << { <<1>> }, { <<1>> }, { <<10, 1>>, <<12, 9>> }, T_depictstmsobjectid >>,
      << { <<1>>, <<2>> }, { <<1>> }, { <<10, 1>>, <<12, 9>> }, T_DepictsTMSObjectID >>,
      << { <<1>>, <<2>> }, { <<1>>, <<2>> }, { <<10, 1>> }, T_depictstmsobjectid >> }

\* The data directories.  The CSVs of the child tables name objects 1 and 2
\* and constituents 1 and 2, so that three directories hold orphaned keys
\* and the last holds none.
DataDirs ==
    { [t \in TableNames |->
         CASE t = "objects" -> Frame(<<T_objectid>>, d[1])
           [] t = "constituents" -> Frame(<<T_constituentid>>, d[2])
           [] t = "published_images" ->
                Frame(<< <<"u", "u", "i", "d">>, d[4] >>, d[3])
           [] t = "objects_constituents" ->
                Frame(<<T_objectid, T_constituentid>>, { <<1, 1>>, <<2, 2>> })
           [] t \in {"objects_terms", "objects_text_entries"} ->
                Frame(<<T_objectid>>, { <<1>>, <<2>> })
           [] t \in {"objects_dimensions", "objects_historical_data"} ->
                Frame(<<T_objectid>>, { <<1>> })
           [] t = "constituents_altnames" -> Frame(<<T_constituentid>>, { <<1>> })
           [] t = "constituents_text_entries" -> Frame(<<T_constituentid>>, { <<2>> })
           [] OTHER -> Frame(PlainHeader(t), { <<1>> })] :
        d \in DataDirRows }

\* A table of the dataset: what was loaded, and how many of the two
\* description updates followed the load.
Table(df, described) ==
    Some([columns |-> df.columns, rows |-> df.rows, described |-> described])

\* The dataset before the run: no table, or the tables an earlier run
\* loaded from a directory that had object 9 and its image.
Datasets ==
    { [t \in TableNames |-> NULL],
      [t \in TableNames |->
         CASE t = "objects" -> Table(Frame(<<T_objectid>>, { <<9>> }), 2)
           [] t = "published_images" ->
                Table(Frame(<< <<"u", "u", "i", "d">>, T_objectid >>, { <<12, 9>> }), 2)
           [] OTHER -> Table(Frame(<< <<"i", "d">> >>, { <<0>> }), 2)] }

\* No application request runs.
AppIdle ==
    /\ keywords = <<>>
    /\ search_type = "comprehensive"
    /\ limit = DefaultLimit
    /\ outcome = "idle"
    /\ result = <<>>
    /\ show_detailed_info = FALSE
    /\ response = <<>>
    /\ row = 0
    /\ ui = <<>>
    /\ calls = <<>>

LoaderInit ==
    /\ store \in Datasets
    /\ data_dir \in DataDirs
    /\ successful_loads = <<>>
    /\ failed_loads = <<>>
    /\ frame = NULL
    /\ object_ids = NULL
    /\ pc = "main"
    /\ AppIdle

\* create_dataset_if_not_exists() and get_dependency_order(); an exception
\* of create_dataset ends the run.
CreateDataset ==
    /\ pc = "main"
    /\ \E created \in BOOLEAN : pc' = IF created THEN "loop" ELSE "crashed"
    /\ UNCHANGED <<store, appVars, loaderVars>>

\* How far "for table_id in loading_order" has come: every pass appends
\* its table to one of the two lists.
Attempted == Len(successful_loads) + Len(failed_loads)

\* A pass of the loop is in turn, and table_id is its table.
InLoop(table_id) ==
    /\ pc = "loop"
    /\ Attempted < Len(get_dependency_order)
    /\ table_id = get_dependency_order[Attempted + 1]

\* The table of the pass that is under way.
CurrentTable == get_dependency_order[Attempted + 1]

\* A loader that drops, from every CSV with an objectid column, the rows of
\* objects that objects.csv does not have.
PreparedWithKnownObjects(table_id) ==
    LET df == data_dir[table_id]
        known == ColumnValues(data_dir["objects"], T_objectid)
    IN  Frame(Rename(sanitize_column_names(df.columns),
                     ConfigOf(table_id).column_renames),
              { r \in df.rows :
                  \/ IsNull(ColumnValues(df, T_objectid))
                  \/ Val(ColumnValues([df EXCEPT !.rows = {r}], T_objectid))
                        \subseteq Val(known) })

\* The frame a table is loaded from: the CSV with its column names
\* sanitized, then renamed as the table's config says.
Prepared(table_id) ==
    Frame(Rename(sanitize_column_names(data_dir[table_id].columns),
                 ConfigOf(table_id).column_renames),
          data_dir[table_id].rows)

\* A step of the pass of table_id fails: load_csv_to_bigquery returns
\* False, or the except clause of the special pass is entered, and main()
\* appends the table to failed_loads.
FailPass(table_id) ==
    /\ Len(failed_loads) < MaxFailedLoads
    /\ failed_loads' = Append(failed_loads, table_id)
    /\ successful_loads' = successful_loads
    /\ pc' = "loop"

\* The standard pass, load_csv_to_bigquery(table_id, config), up to the end
\* of its load job: the file is missing or unreadable or the job raises,
\* and the table stays as it was; or the job replaces the table.
LoadTable ==
    /\ \E table_id \in TableNames :
          /\ InLoop(table_id)
          /\ ~(table_id = "published_images"
                 /\ \E n \in 1..Len(successful_loads) : successful_loads[n] = "objects")
          /\ \/ FailPass(table_id) /\ store' = store
             \/ /\ store' = [store EXCEPT ![table_id] = Table(Prepared(table_id), 0)]
                /\ pc' = "table_description"
                /\ UNCHANGED <<successful_loads, failed_loads>>
    /\ UNCHANGED <<data_dir, frame, object_ids, appVars>>

\* The pass of published_images once objects is among the successful
\* loads, up to the end of filter_published_images: the file is unreadable
\* or the filter raises, or the frame to load is in hand.
LoadPublishedImages ==
    /\ InLoop("published_images")
    /\ \E n \in 1..Len(successful_loads) : successful_loads[n] = "objects"
    /\ \/ FailPass("published_images") /\ frame' = frame
       \/ \E filtered \in filter_published_images(Prepared("published_images"), store) :
             IF IsNull(filtered)
             THEN FailPass("published_images") /\ frame' = frame
             ELSE /\ frame' = filtered
                  /\ pc' = "load"
                  /\ UNCHANGED <<successful_loads, failed_loads>>
    /\ UNCHANGED <<store, data_dir, object_ids, appVars>>

\* The load job of the filtered frame.
LoadFilteredImages ==
    /\ pc = "load"
    /\ \/ FailPass("published_images") /\ store' = store
       \/ /\ store' = [store EXCEPT !["published_images"] = Table(Val(frame), 0)]
          /\ pc' = "table_description"
          /\ UNCHANGED <<successful_loads, failed_loads>>
    /\ frame' = NULL
    /\ UNCHANGED <<data_dir, object_ids, appVars>>

\* add_table_description(table_ref, config['description'])
AddTableDescription ==
    /\ pc = "table_description"
    /\ \/ FailPass(CurrentTable) /\ store' = store
       \/ /\ store' = [store EXCEPT ![CurrentTable] =
                         Table(Val(store[CurrentTable]), 1)]
          /\ pc' = "column_descriptions"
          /\ UNCHANGED <<successful_loads, failed_loads>>
    /\ UNCHANGED <<data_dir, frame, object_ids, appVars>>

\* add_column_descriptions(table_ref, column_mapping), after which the
\* pass is over and main() appends the table to successful_loads.
AddColumnDescriptions ==
    /\ pc = "column_descriptions"
    /\ \/ FailPass(CurrentTable) /\ store' = store
       \/ /\ store' = [store EXCEPT ![CurrentTable] =
                         Table(Val(store[CurrentTable]), 2)]
          /\ successful_loads' = Append(successful_loads, CurrentTable)
          /\ failed_loads' = failed_loads
          /\ pc' = "loop"
    /\ UNCHANGED <<data_dir, frame, object_ids, appVars>>

\* A loop that a failed load breaks off: the summary follows the first
\* failure.
SummaryAfterFailure ==
    /\ pc = "loop"
    /\ Attempted = Len(get_dependency_order) \/ failed_loads # <<>>
    /\ pc' = "done"
    /\ UNCHANGED <<store, appVars, loaderVars>>

\* The loop is over: the summary is logged.
Summary ==
    /\ pc = "loop"
    /\ Attempted = Len(get_dependency_order)
    /\ pc' = "done"
    /\ UNCHANGED <<store, appVars, loaderVars>>

LoaderNext ==
    \/ CreateDataset
    \/ LoadTable
    \/ LoadPublishedImages
    \/ LoadFilteredImages
    \/ AddTableDescription
    \/ AddColumnDescriptions
    \/ Summary

LoaderSpec == LoaderInit /\ [][LoaderNext]_vars

(***************************************************************************)
(* Specification CuratorLoaderSpec: one run of the older loader script     *)
(* (nga-curator/load_to_bigquery.py), which writes five tables of the same *)
(* dataset: the column names stay as the CSV has them, no description is   *)
(* set, no list of loads is kept, and published_images is filtered by the  *)
(* object ids fetched from the objects table.                              *)
(***************************************************************************)
\* The tables of the calls load_csv_to_bigquery(file_name, table_id) of the
\* script, in the order of the calls.
CuratorLoads == <<"objects", "constituents", "objects_constituents", "objects_terms">>

CuratorInit ==
    /\ store \in Datasets
    /\ data_dir \in DataDirs
    /\ successful_loads = <<>>
    /\ failed_loads = <<>>
    /\ frame = NULL
    /\ object_ids = NULL
    /\ pc = "main"
    /\ AppIdle

\* client.get_dataset(DATASET_ID), and client.create_dataset(DATASET_ID)
\* when it raises; an exception of create_dataset ends the run.
CuratorCreateDataset ==
    /\ pc = "main"
    /\ \E created \in BOOLEAN : pc' = IF created THEN CuratorLoads[1] ELSE "crashed"
    /\ UNCHANGED <<store, appVars, loaderVars>>

\* def load_csv_to_bigquery(file_name, table_id, rename_columns=None), called
\* without rename_columns: the file cannot be read or the load job raises,
\* the error is printed and the table stays as it was; or the job replaces
\* the table by the frame as it was read.  The script goes on either way.
CuratorLoadCsv ==
    /\ \E n \in 1..Len(CuratorLoads) :
          /\ pc = CuratorLoads[n]
          /\ \/ store' = store
             \/ store' = [store EXCEPT ![CuratorLoads[n]] =
                            Table(data_dir[CuratorLoads[n]], 0)]
          /\ pc' = IF n < Len(CuratorLoads) THEN CuratorLoads[n + 1] ELSE "fetch_ids"
    /\ UNCHANGED <<appVars, loaderVars>>

\* SELECT objectid FROM objects: the query raises, or it finds no id, and
\* the script exits; or the ids are in hand.
CuratorFetchObjectIds ==
    /\ pc = "fetch_ids"
    /\ LET fetched == IF IsNull(store["objects"]) THEN NULL
                      ELSE ColumnValues(Val(store["objects"]), T_objectid)
       IN  \/ pc' = "exited" /\ object_ids' = object_ids
           \/ /\ NotNull(fetched)
              /\ object_ids' = fetched
              /\ pc' = IF Val(fetched) = {} THEN "exited" ELSE "published_images"
    /\ UNCHANGED <<store, appVars, data_dir, successful_loads, failed_loads, frame>>

\* The handling of published_images.csv: the column depictstmsobjectid,
\* spelt so, is renamed to objectid, the rows of other objects are dropped
\* and the rest is loaded.  When the file cannot be read, the frame has no
\* column objectid (KeyError) or the load job raises, the error is printed
\* and the table stays as it was.
CuratorLoadPublishedImages ==
    /\ pc = "published_images"
    /\ LET csv == data_dir["published_images"]
           df_images == Frame(Rename(csv.columns, {<<T_depictstmsobjectid, T_objectid>>}),
                              csv.rows)
           df_images_cleaned ==
               Frame(df_images.columns,
                     { r \in df_images.rows :
                         Val(ColumnValues([df_images EXCEPT !.rows = {r}], T_objectid))
                             \subseteq Val(object_ids) })
       IN  \/ store' = store
           \/ /\ NotNull(ColumnValues(df_images, T_objectid))
              /\ store' = [store EXCEPT !["published_images"] = Table(df_images_cleaned, 0)]
    /\ pc' = "done"
    /\ UNCHANGED <<appVars, loaderVars>>

CuratorLoaderNext ==
    \/ CuratorCreateDataset
    \/ CuratorLoadCsv
    \/ CuratorFetchObjectIds
    \/ CuratorLoadPublishedImages

CuratorLoaderSpec == CuratorInit /\ [][CuratorLoaderNext]_vars

(***************************************************************************)
(* Vocabulary of the claims, read off the store and the returned table.    *)
(***************************************************************************)
Returned_ == outcome = "returned"

\* kw occurs in s as a contiguous run of characters, letter case ignored.
ContainsCI(s, kw) ==
    \E i \in 1..(Len(s) + 1) :
        /\ i + Len(kw) - 1 <= Len(s)
        /\ SubSeq(Lower(s), i, i + Len(kw) - 1) = Lower(kw)

Rows == { result[i] : i \in 1..Len(result) }

RowsOf(id) == { i \in 1..Len(result) : result[i].objectid = id }

\* The rows a list of keywords matches in the scope searched.
MatchingFor(kws) ==
    artwork_base(store, where_clauses(kws, search_type), params(kws, search_type))

ObjectIds(rows) == { r.objectid : r \in rows }

\* The rows that match before LIMIT.
Matching == MatchingFor(keywords)

NotTruncated == Cardinality(Matching) <= limit

ArtistLinks(o) ==
    { l \in store.objects_constituents : l.objectid = o.objectid /\ l.roletype = "artist" }

ArtistNames(o) ==
    { c.preferreddisplayname :
        c \in { x \in store.constituents :
                  \E l \in ArtistLinks(o) : l.constituentid = x.constituentid } }

TermsOf(o) == { t.term : t \in { x \in store.objects_terms : x.objectid = o.objectid } }

PrimaryUrls(o) ==
    { i.iiifurl : i \in { x \in store.published_images :
                            x.objectid = o.objectid /\ x.viewtype = "primary" } }

Eligible(o) == o.accessioned = 1 /\ \E u \in PrimaryUrls(o) : NotNull(u)

\* The values of the fields a scope searches.
ScopeFields(o, stype) ==
    CASE stype = "comprehensive" ->
           {o.title, o.medium, o.classification} \cup TermsOf(o) \cup ArtistNames(o)
      [] stype = "terms_only" -> TermsOf(o)
      [] stype = "title_only" -> {o.title}

\* Some keyword is a case-insensitive substring of some searched field.
SubstringMatch(o, kws, stype) ==
    \E k \in 1..Len(kws) :
        \E f \in ScopeFields(o, stype) : NotNull(f) /\ ContainsCI(Val(f), kws[k])

(***************************************************************************)
(* C1.  The rows search returns have pairwise distinct objectid values.    *)
(* Violated: an object with two artists or two primary images comes back   *)
(* once per artist and image, since DISTINCT and GROUP BY range over all   *)
(* columns.                                                                *)
(***************************************************************************)
C1_DistinctObjectIds ==
    Returned_ =>
        \A i, j \in 1..Len(result) :
            i # j => result[i].objectid # result[j].objectid

(***************************************************************************)
(* C2.  With scope title_only every returned row's title contains one of   *)
(* the keywords as a case-insensitive substring, also for keywords that    *)
(* contain % or _.  Violated: LIKE reads % and _ in a keyword as wildcards.*)
(***************************************************************************)
C2_TitleContainsKeyword ==
    (Returned_ /\ search_type = "title_only") =>
        \A r \in Rows :
            /\ NotNull(r.title)
            /\ \E k \in 1..Len(keywords) : ContainsCI(Val(r.title), keywords[k])

(***************************************************************************)
(* C3.  An eligible object is matched if and only if some keyword is a     *)
(* case-insensitive substring of some field of the scope.  Read on a       *)
(* result the limit did not cut.  Violated by wildcard keywords (C2).      *)
(***************************************************************************)
C3_MatchIffSubstring ==
    (Returned_ /\ NotTruncated) =>
        \A o \in store.objects :
            Eligible(o) =>
                (RowsOf(o.objectid) # {} <=> SubstringMatch(o, keywords, search_type))

(***************************************************************************)
(* C4.  Every returned row belongs to an object with accessioned = 1 and   *)
(* carries a non-null image URL of one of that object's images with        *)
(* viewtype 'primary'.                                                     *)
(***************************************************************************)
C4_Eligibility ==
    Returned_ =>
        \A r \in Rows :
            /\ \E o \in store.objects : o.objectid = r.objectid /\ o.accessioned = 1
            /\ NotNull(r.iiifurl)
            /\ \E i \in store.published_images :
                  /\ i.objectid = r.objectid
                  /\ i.viewtype = "primary"
                  /\ i.iiifurl = r.iiifurl

\* A returned row of an object that also has an image that is not primary.
C4_Witness ==
    /\ Returned_
    /\ \E r \in Rows :
          \E i \in store.published_images :
              i.objectid = r.objectid /\ i.viewtype = "alternate"

(***************************************************************************)
(* C5 as claimed.  For rows A before B: A has an artist name and B has     *)
(* none, or both agree on that and A's creation start year >= B's (two     *)
(* missing years taken as equal).  Violated: a row with a year precedes a  *)
(* row of the same group whose year is NULL.                               *)
(***************************************************************************)
SameArtistNullness(a, b) == IsNull(a.artist_name) <=> IsNull(b.artist_name)

YearAtLeast(a, b) ==
    \/ IsNull(a.creation_start_year) /\ IsNull(b.creation_start_year)
    \/ /\ NotNull(a.creation_start_year)
       /\ NotNull(b.creation_start_year)
       /\ Val(a.creation_start_year) >= Val(b.creation_start_year)

C5_RankingAsClaimed ==
    Returned_ =>
        \A i, j \in 1..Len(result) :
            i < j =>
                \/ NotNull(result[i].artist_name) /\ IsNull(result[j].artist_name)
                \/ SameArtistNullness(result[i], result[j]) /\ YearAtLeast(result[i], result[j])

(***************************************************************************)
(* C5 amended.  For rows A before B: A has an artist name and B has none,  *)
(* or both agree on that and either B's creation start year is NULL or     *)
(* both years are present and A's >= B's.  In particular, of two rows with *)
(* artist names, the one of year 1700 precedes the one of year 1650.       *)
(***************************************************************************)
C5_Ranking ==
    Returned_ =>
        /\ \A i, j \in 1..Len(result) :
              i < j =>
                  \/ NotNull(result[i].artist_name) /\ IsNull(result[j].artist_name)
                  \/ /\ SameArtistNullness(result[i], result[j])
                     /\ \/ IsNull(result[j].creation_start_year)
                        \/ YearAtLeast(result[i], result[j])
        /\ \A i, j \in 1..Len(result) :
              ( /\ NotNull(result[i].artist_name) /\ NotNull(result[j].artist_name)
                /\ result[i].creation_start_year = Some(1700)
                /\ result[j].creation_start_year = Some(1650) ) => i < j

\* Two rows with artist names, years 1700 and 1650, in that order.
C5_Witness ==
    /\ Returned_
    /\ Len(result) = 2
    /\ NotNull(result[1].artist_name) /\ NotNull(result[2].artist_name)
    /\ result[1].creation_start_year = Some(1700)
    /\ result[2].creation_start_year = Some(1650)

(***************************************************************************)
(* C6.  For a positive limit N the result has exactly min(N, M) rows, M    *)
(* the number of rows that match before LIMIT, and the rows kept are the   *)
(* first in ranking order: no row left out ranks before a row kept.        *)
(***************************************************************************)
BaseColumns(r) == [c \in (DOMAIN r) \ {"all_terms"} |-> r[c]]

C6_Limit ==
    (Returned_ /\ limit > 0) =>
        /\ Len(result) = Min(limit, Cardinality(Matching))
        /\ Cardinality(Rows) = Len(result)
        /\ \A r \in Rows : BaseColumns(r) \in Matching
        /\ \A x \in Matching :
              (\A r \in Rows : BaseColumns(r) # x) =>
                  \A r \in Rows : ~OrderedBefore(x, r)

\* LIMIT cut the result: two rows match and one is returned.
C6_Witness ==
    /\ Returned_
    /\ limit = 1
    /\ Cardinality(Matching) = 2
    /\ Len(result) = 1

(***************************************************************************)
(* C7.  Broadening the keyword list never shrinks the result: for every    *)
(* non-empty list K whose keywords all occur in the list searched, every   *)
(* object K matches before LIMIT is matched by the list searched, and the  *)
(* search returned at least as many rows as a search for K returns, which  *)
(* is the smaller of the limit and the number of rows K matches.           *)
(***************************************************************************)
KeywordsIn(kws) == { kws[k] : k \in 1..Len(kws) }

Narrower(kws) ==
    { K \in KeywordLists : K # <<>> /\ KeywordsIn(K) \subseteq KeywordsIn(kws) }

C7_BroadeningNeverShrinks ==
    Returned_ =>
        LET broad == Matching
        IN  \A K \in Narrower(keywords) :
                LET narrow == MatchingFor(K)
                IN  /\ ObjectIds(narrow) \subseteq ObjectIds(broad)
                    /\ Min(limit, Cardinality(narrow)) <= Len(result)

\* A second keyword added rows: the first keyword alone matches nothing.
C7_Witness ==
    /\ Returned_
    /\ Len(keywords) = 2
    /\ result # <<>>
    /\ MatchingFor(<<keywords[1]>>) = {}

(***************************************************************************)
(* C8 as claimed.  An eligible object that matches the keywords and has no *)
(* artist link is returned as exactly one row with all artist fields NULL  *)
(* (read on a result the limit did not cut).  Violated: such an object     *)
(* with two primary images is returned twice (C1).                         *)
(***************************************************************************)
C8_NoArtistExactlyOneRow ==
    (Returned_ /\ NotTruncated) =>
        \A o \in store.objects :
            (Eligible(o) /\ SubstringMatch(o, keywords, search_type) /\ ArtistLinks(o) = {}) =>
                /\ Cardinality(RowsOf(o.objectid)) = 1
                /\ \A i \in RowsOf(o.objectid) :
                      IsNull(result[i].artist_name) /\ IsNull(result[i].artist_nationality)

(***************************************************************************)
(* C9.  In every returned row all_terms lists, once each, exactly the      *)
(* terms attached to the row's object in objects_terms, whichever term     *)
(* matched and whatever the scope; it is NULL when the object has none.    *)
(***************************************************************************)
\* The first position at which ", " starts in s, or 0.
SeparatorAt(s) ==
    LET at == { i \in 1..(Len(s) - 1) : s[i] = "," /\ s[i + 1] = " " }
    IN  IF at = {} THEN 0 ELSE CHOOSE i \in at : \A k \in at : i <= k

RECURSIVE SplitTerms(_)
SplitTerms(s) ==
    IF SeparatorAt(s) = 0 THEN <<s>>
    ELSE <<SubSeq(s, 1, SeparatorAt(s) - 1)>>
         \o SplitTerms(SubSeq(s, SeparatorAt(s) + 2, Len(s)))

Listed(r) == IF IsNull(r.all_terms) THEN <<>> ELSE SplitTerms(Val(r.all_terms))

AttachedTerms(id) ==
    { Val(t.term) : t \in { x \in store.objects_terms : x.objectid = id /\ NotNull(x.term) } }

C9_AllTerms ==
    Returned_ =>
        \A r \in Rows :
            /\ { Listed(r)[n] : n \in 1..Len(Listed(r)) } = AttachedTerms(r.objectid)
            /\ Len(Listed(r)) = Cardinality(AttachedTerms(r.objectid))

\* An object found through its term "c" alone still lists its term "Ab".
C9_Witness ==
    /\ Returned_
    /\ search_type = "terms_only"
    /\ keywords = << <<"c">> >>
    /\ \E r \in Rows :
          /\ AttachedTerms(r.objectid) = {T_c, T_Ab}
          /\ Len(Listed(r)) = 2

(***************************************************************************)
(* C10.  A request whose search matches no row and does not fault gets an  *)
(* empty table back and ends showing "no artworks found"; a request whose  *)
(* warehouse query faults ends showing an error and never shows "no        *)
(* artworks found".                                                        *)
(***************************************************************************)
Shown(element) == \E n \in 1..Len(ui) : ui[n] = element

SearchMade == \E n \in 1..Len(calls) : calls[n].fn = "query_artworks_enhanced"

C10_EmptyIsNotFailure ==
    (pc = "done" /\ SearchMade) =>
        /\ (outcome = "returned" /\ Matching = {}) =>
              /\ result = <<>>
              /\ Shown("warning_no_artworks")
              /\ ~Shown("error")
        /\ outcome # "returned" =>
              /\ Shown("error")
              /\ ~Shown("warning_no_artworks")

\* A finished request over a store with an eligible object that no keyword
\* matched: the search returned the empty table and the page says so.
C10_Witness ==
    /\ pc = "done"
    /\ SearchMade
    /\ outcome = "returned"
    /\ \E o \in store.objects : Eligible(o)
    /\ result = <<>>
    /\ Shown("warning_no_artworks")

(***************************************************************************)
(* Vocabulary of the error claims: how a finished call of                  *)
(* query_artworks_enhanced ended, as its caller sees it.                   *)
(***************************************************************************)
\* The errors client.query(...).to_dataframe() raises: the caller cannot
\* tell them from any other fault of the warehouse.
BackendFault == outcome \in {"BadRequest", "ServiceUnavailable"}

\* The call was refused for its arguments: it raised, and what it raised
\* is not an error of the warehouse.
InvalidArgumentError == outcome \notin {"idle", "returned"} /\ ~BackendFault

(***************************************************************************)
(* C11.  A call of search whose scope is none of comprehensive, terms_only *)
(* and title_only fails with InvalidArgumentError, whatever the keyword    *)
(* list and the limit.  Violated: with an empty keyword list no clause is  *)
(* built, the statement goes out with "AND ()" and the warehouse rejects   *)
(* it, or fails on its own.                                                *)
(***************************************************************************)
C11_InvalidScopeRejected ==
    (outcome # "idle" /\ search_type \notin SearchTypes) => InvalidArgumentError

(***************************************************************************)
(* C12.  A call of search with a limit of zero or less, or with an empty   *)
(* keyword list, fails with InvalidArgumentError: it returns no table and  *)
(* is not reported as a fault of the warehouse.  Violated: LIMIT 0 returns *)
(* an empty table; LIMIT -1 and "AND ()" are rejected by the warehouse.    *)
(***************************************************************************)
C12_BadLimitOrNoKeywordsRejected ==
    (outcome # "idle" /\ (limit <= 0 \/ keywords = <<>>)) => InvalidArgumentError

(***************************************************************************)
(* Vocabulary of the request claims.                                       *)
(***************************************************************************)
Fetchers == { DetailFetchers[n] : n \in 1..Len(DetailFetchers) }

\* The calls of fn the handler has made.
CallsOf(fn) == { n \in 1..Len(calls) : calls[n].fn = fn }

\* How many times the page shows element.
TimesShown(element) == Cardinality({ n \in 1..Len(ui) : ui[n] = element })

(***************************************************************************)
(* C13.  With detailed information on, a fetcher call that raises for a    *)
(* displayed row keeps neither the other two fetchers of that row from     *)
(* being called, nor the rows after it from being fetched and rendered:    *)
(* when the request is over every fetcher has been called for the row of   *)
(* the fault and once per row of the result, and every row is on the page. *)
(* Violated: the first fetcher that raises ends the request.               *)
(***************************************************************************)
C13_FetchersFailIndependently ==
    pc = "done" =>
        \A n \in 1..Len(calls) :
            (calls[n].fn \in Fetchers /\ calls[n].raised) =>
                /\ \A f \in Fetchers :
                      /\ \E m \in CallsOf(f) : calls[m].objectid = calls[n].objectid
                      /\ Cardinality(CallsOf(f)) = Len(result)
                /\ TimesShown("artwork") = Len(result)

(***************************************************************************)
(* C14.  An exception raised by the model call, by search or by a detail   *)
(* fetcher is caught: the call that raised is the last call of the         *)
(* request, the request is over, the page ends with the error message      *)
(* followed by the suggestion, and the script never dies of an exception.  *)
(***************************************************************************)
C14_NoFailureEscapes ==
    /\ pc # "crashed"
    /\ \A n \in 1..Len(calls) :
          calls[n].raised =>
              /\ n = Len(calls)
              /\ pc = "done"
              /\ Len(ui) >= 2
              /\ ui[Len(ui) - 1] = "error"
              /\ ui[Len(ui)] = "info_enter_keywords"

\* The related-artworks fetcher raised after the provenance and the text
\* entries of the same row were shown.
C14_Witness ==
    /\ Len(calls) > 0
    /\ calls[Len(calls)].fn = "get_related_artworks"
    /\ calls[Len(calls)].raised
    /\ Shown("get_artwork_text_entries")
    /\ Shown("error")

(***************************************************************************)
(* C18.  The keyword list handed to search is the response text cut at its *)
(* commas, each piece without its surrounding whitespace, in the order of  *)
(* the response: as many keywords as commas plus one, none dropped, and    *)
(* the empty response gives the list holding the one empty keyword.        *)
(***************************************************************************)
CommasOf(text) == { i \in 1..Len(text) : text[i] = "," }

\* The text between the (n-1)th and the nth comma of text.
PieceOf(text, n) ==
    LET before == { i \in CommasOf(text) : Cardinality({ k \in CommasOf(text) : k <= i }) = n - 1 }
        after == { i \in CommasOf(text) : Cardinality({ k \in CommasOf(text) : k <= i }) = n }
        from == IF before = {} THEN 1 ELSE (CHOOSE i \in before : TRUE) + 1
        to == IF after = {} THEN Len(text) ELSE (CHOOSE i \in after : TRUE) - 1
    IN  SubSeq(text, from, to)

\* k is piece without the whitespace at its two ends.
Trimmed(k, piece) ==
    /\ k = <<>> \/ (~IsSpace(k[1]) /\ ~IsSpace(k[Len(k)]))
    /\ \E i \in 1..(Len(piece) + 1) :
          /\ i + Len(k) - 1 <= Len(piece)
          /\ k = SubSeq(piece, i, i + Len(k) - 1)
          /\ \A j \in 1..Len(piece) : (j < i \/ j > i + Len(k) - 1) => IsSpace(piece[j])

C18_KeywordsAreSplitResponse ==
    (pc = "search" \/ SearchMade) =>
        /\ Len(keywords) = Cardinality(CommasOf(response)) + 1
        /\ \A n \in 1..Len(keywords) : Trimmed(keywords[n], PieceOf(response, n))
        /\ response = <<>> => keywords = << <<>> >>

\* A response with whitespace around its pieces and nothing after its comma:
\* the search gets "c" and the empty keyword.
C18_Witness ==
    /\ SearchMade
    /\ response = <<"\n", "c", " ", ",", " ">>
    /\ keywords = << <<"c">>, <<>> >>

(***************************************************************************)
(* Vocabulary of the detail-fetcher claims, read off the tables.           *)
(***************************************************************************)
\* The finished call was a call of fn.
Fetched(fn) == outcome # "idle" /\ Len(calls) = 1 /\ calls[1].fn = fn

\* The object id of the call.
Seed == calls[1].objectid

\* The rows of objects_constituents that make object id's provenance.
OwnerDonorLinks(id) ==
    { l \in store.objects_constituents : l.objectid = id /\ l.roletype \in {"owner", "donor"} }

KnownConstituent(l) == \E c \in store.constituents : c.constituentid = l.constituentid

\* The constituents linked to object id in the artist role.
ArtistsOf(id) ==
    { l.constituentid :
        l \in { x \in store.objects_constituents : x.objectid = id /\ x.roletype = "artist" } }

\* An object other than id by one of id's artists, with a primary image
\* that has a URL.
HasRelated(id) ==
    \E o \in store.objects :
        /\ o.objectid # id
        /\ ArtistsOf(o.objectid) \cap ArtistsOf(id) # {}
        /\ \E i \in store.published_images :
              i.objectid = o.objectid /\ i.viewtype = "primary" /\ NotNull(i.iiifurl)

\* The call has no row to return.
NoQualifyingRows ==
    \/ Fetched("get_artwork_provenance") /\ OwnerDonorLinks(Seed) = {}
    \/ /\ Fetched("get_artwork_text_entries")
       /\ \A t \in store.objects_text_entries : t.objectid # Seed
    \/ Fetched("get_related_artworks") /\ ~HasRelated(Seed)

(***************************************************************************)
(* C15.  A detail fetcher called with an object id that has no qualifying  *)
(* rows (an id no table holds, an object without artist, ...) returns the  *)
(* empty table: it raises nothing but a fault of the warehouse call        *)
(* itself, which no object id causes.                                      *)
(***************************************************************************)
C15_NoRowsIsEmptyNotError ==
    NoQualifyingRows =>
        /\ outcome \in {"returned", "ServiceUnavailable"}
        /\ outcome = "returned" => result = <<>>

\* get_related_artworks returned the empty table for an object without
\* artist, in a store where another object has related artworks.
C15_Witness ==
    /\ Fetched("get_related_artworks")
    /\ outcome = "returned"
    /\ result = <<>>
    /\ Seed = 1
    /\ ArtistsOf(1) = {}
    /\ HasRelated(2)

(***************************************************************************)
(* C16 as claimed.  get_artwork_provenance(objectid) returns one entry for *)
(* each objects_constituents row of that object whose roletype is 'owner'  *)
(* or 'donor', no other entry, in ascending displayorder.  Violated: a     *)
(* row whose constituentid is in no row of constituents has no entry.      *)
(***************************************************************************)
\* entry shows the link l.
EntryOf(entry, l) ==
    /\ entry.roletype = l.roletype
    /\ entry.role = l.role
    /\ entry.displaydate = l.displaydate
    /\ entry.displayorder = l.displayorder
    /\ \A c \in store.constituents :
          c.constituentid = l.constituentid => entry.name = c.preferreddisplayname

\* The entries of the result show the links, one entry for each.
OneEntryForEach(links) ==
    /\ Len(result) = Cardinality(links)
    /\ \E e \in Enumerations(links) : \A n \in 1..Len(result) : EntryOf(result[n], e[n])

\* No entry stands before one with a smaller displayorder; entries without
\* displayorder stand first.
AscendingDisplayorder ==
    \A i, j \in 1..Len(result) :
        i < j =>
            \/ IsNull(result[i].displayorder)
            \/ /\ NotNull(result[j].displayorder)
               /\ Val(result[i].displayorder) <= Val(result[j].displayorder)

C16_ProvenanceAsClaimed ==
    (Fetched("get_artwork_provenance") /\ outcome = "returned") =>
        /\ OneEntryForEach(OwnerDonorLinks(Seed))
        /\ AscendingDisplayorder

(***************************************************************************)
(* C16 amended.  get_artwork_provenance(objectid) returns one entry for    *)
(* each objects_constituents row of that object whose roletype is 'owner'  *)
(* or 'donor' and whose constituentid is that of a row of constituents, no *)
(* other entry, in ascending displayorder with the rows that have no       *)
(* displayorder first.                                                     *)
(***************************************************************************)
C16_Provenance ==
    (Fetched("get_artwork_provenance") /\ outcome = "returned") =>
        /\ OneEntryForEach({ l \in OwnerDonorLinks(Seed) : KnownConstituent(l) })
        /\ AscendingDisplayorder

\* Two entries returned for an object that has an owner, a donor and a
\* third owner whose constituent is unknown.
C16_Witness ==
    /\ Fetched("get_artwork_provenance")
    /\ outcome = "returned"
    /\ Len(result) = 2
    /\ result[1].roletype = "donor"
    /\ result[2].roletype = "owner"
    /\ \E l \in OwnerDonorLinks(Seed) : ~KnownConstituent(l)

(***************************************************************************)
(* C17.  get_related_artworks(objectid) returns at most 5 rows; there is   *)
(* one artist of the seed object such that every returned row is an object *)
(* other than the seed with an artist-role link to that artist and carries *)
(* the non-null URL of one of its primary images; no row stands before one *)
(* with a smaller displaydate (text order, rows without displaydate        *)
(* first).                                                                 *)
(***************************************************************************)
C17_RelatedArtworks ==
    (Fetched("get_related_artworks") /\ outcome = "returned") =>
        /\ Len(result) <= 5
        /\ \/ result = <<>>
           \/ \E a \in ArtistsOf(Seed) :
                 \A n \in 1..Len(result) :
                    /\ result[n].objectid # Seed
                    /\ a \in ArtistsOf(result[n].objectid)
                    /\ NotNull(result[n].iiifurl)
                    /\ \E i \in store.published_images :
                          /\ i.objectid = result[n].objectid
                          /\ i.viewtype = "primary"
                          /\ i.iiifurl = result[n].iiifurl
        /\ \A i, j \in 1..Len(result) :
              i < j =>
                 \/ IsNull(result[i].displaydate)
                 \/ /\ NotNull(result[j].displaydate)
                    /\ ~TextBefore(Val(result[j].displaydate), Val(result[i].displaydate))

\* Five rows returned for a seed with two artists, where six rows qualify
\* for the artist selected: three objects with two primary images each.
C17_Witness ==
    /\ Fetched("get_related_artworks")
    /\ outcome = "returned"
    /\ Len(result) = 5
    /\ Seed = 1
    /\ ArtistsOf(1) = {1, 2}
    /\ \A id \in {2, 3, 4} :
          /\ 1 \in ArtistsOf(id)
          /\ Cardinality({ i \in store.published_images :
                             i.objectid = id /\ i.viewtype = "primary" }) = 2

(***************************************************************************)
(* Vocabulary of the loader claims, read off the dataset and the two lists *)
(* of main().                                                              *)
(***************************************************************************)
\* The objectid values of the rows of a table of the dataset; none when
\* the table does not exist.
ObjectIdsIn(table_id) ==
    IF IsNull(store[table_id]) \/ IsNull(ColumnValues(Val(store[table_id]), T_objectid))
    THEN {}
    ELSE Val(ColumnValues(Val(store[table_id]), T_objectid))

(***************************************************************************)
(* C19.  When a run of the loader is over, whichever loads and description *)
(* updates failed in it, every row of published_images has an objectid     *)
(* that a row of objects has.  Violated: when objects is not among the     *)
(* successful loads, published_images is loaded without the filter; the    *)
(* filter hands the frame back whole when its query fails or finds no id;  *)
(* and a failed load of published_images leaves the rows of an earlier run *)
(* next to the new objects.                                                *)
(***************************************************************************)
C19_ImagesReferenceObjects ==
    pc \in {"done", "exited"} => ObjectIdsIn("published_images") \subseteq ObjectIdsIn("objects")

(***************************************************************************)
(* C20.  A table is loaded only after every table of its dependency list   *)
(* has been loaded with success: each dependency of a table among the      *)
(* successful loads stands before it among the successful loads.           *)
(* Violated: the loop runs through the loading order and loads a table     *)
(* whether or not the loads of its dependencies succeeded.                 *)
(***************************************************************************)
C20_DependenciesLoadedFirst ==
    \A n \in 1..Len(successful_loads) :
        LET dependencies == ConfigOf(successful_loads[n]).dependencies
        IN  \A d \in 1..Len(dependencies) :
                \E m \in 1..(n - 1) : successful_loads[m] = dependencies[d]

\* table_id is among the successful, among the failed loads of the run.
Succeeded(table_id) ==
    \E n \in 1..Len(successful_loads) : successful_loads[n] = table_id

Failed(table_id) ==
    \E n \in 1..Len(failed_loads) : failed_loads[n] = table_id

\* A pass of the loop is under way: its load job or one of its description
\* updates comes next.
InPass == pc \in {"load", "table_description", "column_descriptions"}

\* The table holds rows of the CSV file of the data directory: all of them,
\* or for published_images some of them.
HoldsCsvRows(table_id) ==
    /\ NotNull(store[table_id])
    /\ IF table_id = "published_images"
       THEN Val(store[table_id]).rows \subseteq data_dir[table_id].rows
       ELSE Val(store[table_id]).rows = data_dir[table_id].rows

(***************************************************************************)
(* C21.  A failed load neither stops the run nor undoes earlier work.      *)
(* Once a load has failed the run is still in its loop, between two passes *)
(* or inside one, or at its summary, and in the loop the next table of the *)
(* loading order is in turn;                                               *)
(* every table among the successful loads holds the rows loaded from its   *)
(* CSV; the two lists together are the part of the loading order attempted *)
(* so far, each table once; at the end of the run every table of the       *)
(* loading order is in exactly one of the two lists.                       *)
(***************************************************************************)
C21_FailedLoadNeitherStopsNorUndoes ==
    /\ failed_loads # <<>> =>
          /\ pc \in {"loop", "done"} \/ InPass
          /\ (pc = "loop" /\ Attempted < Len(get_dependency_order)) =>
                \E t \in TableNames : InLoop(t)
          /\ InPass => Attempted < Len(get_dependency_order)
    /\ \A t \in TableNames : Succeeded(t) => HoldsCsvRows(t)
    /\ \A n \in 1..Len(get_dependency_order) :
          LET t == get_dependency_order[n]
          IN  IF n <= Attempted
              THEN Succeeded(t) # Failed(t)
              ELSE ~Succeeded(t) /\ ~Failed(t)
    /\ Len(successful_loads) + Len(failed_loads) <= Len(get_dependency_order)
    /\ pc = "done" =>
          \A n \in 1..Len(get_dependency_order) :
              Succeeded(get_dependency_order[n]) # Failed(get_dependency_order[n])

\* A run that is over in which the second load, of constituents, failed:
\* objects, loaded before it, holds the two objects of its CSV and the last
\* table of the loading order was loaded after it.
C21_Witness ==
    /\ pc = "done"
    /\ failed_loads = <<"constituents">>
    /\ Succeeded("objects")
    /\ Val(store["objects"]).rows = { <<1>>, <<2>> }
    /\ Succeeded("preferred_locations_tms_locations")
    /\ Len(successful_loads) = 16

\* expected_tables of test_table_creation.
ExpectedTables ==
    { "objects", "objects_terms", "published_images", "constituents",
      "objects_constituents", "locations", "alternative_identifiers",
      "constituents_altnames", "constituents_text_entries", "media_items",
      "media_relationships", "object_associations", "objects_dimensions",
      "objects_historical_data", "objects_text_entries", "preferred_locations",
      "preferred_locations_tms_locations" }

(***************************************************************************)
(* C22.  get_dependency_order returns every table of TABLE_CONFIGS exactly *)
(* once: it has 17 entries, no table twice, and its tables are those of    *)
(* TABLE_CONFIGS, which are the 17 expected tables; when a run in which no *)
(* load failed is over, each of the 17 expected tables is present in the   *)
(* dataset.                                                                *)
(***************************************************************************)
C22_EveryTableLoadedOnce ==
    /\ Len(get_dependency_order) = 17
    /\ \A i, j \in 1..Len(get_dependency_order) :
          get_dependency_order[i] = get_dependency_order[j] => i = j
    /\ { get_dependency_order[n] : n \in 1..Len(get_dependency_order) } = TableNames
    /\ TableNames = ExpectedTables
    /\ Cardinality(ExpectedTables) = 17
    /\ (pc = "done" /\ failed_loads = <<>>) =>
          \A t \in ExpectedTables : t \in DOMAIN store /\ NotNull(store[t])

\* A run that is over with 17 successful loads, the last of them the table
\* with two dependencies that stands last in TABLE_CONFIGS.
C22_Witness ==
    /\ pc = "done"
    /\ failed_loads = <<>>
    /\ Len(successful_loads) = 17
    /\ successful_loads[17] = "preferred_locations_tms_locations"
    /\ successful_loads[16] = "objects_constituents"
    /\ \A t \in ExpectedTables : Val(store[t]).described = 2

\* The values of a column of a frame; none when it has no such column.
KeysOf(df, column) ==
    IF IsNull(ColumnValues(df, column)) THEN {} ELSE Val(ColumnValues(df, column))

\* The constituentid values of the rows of a table of the dataset.
ConstituentIdsIn(table_id) ==
    IF IsNull(store[table_id]) THEN {} ELSE KeysOf(Val(store[table_id]), T_constituentid)

\* The child tables that the data-quality tests check against objects and
\* against constituents.
ObjectChildren ==
    { "objects_terms", "objects_constituents", "objects_dimensions",
      "objects_historical_data", "objects_text_entries" }

ConstituentChildren ==
    { "objects_constituents", "constituents_altnames", "constituents_text_entries" }

\* No child table of the dataset holds an orphaned key.
NoOrphanInDataset ==
    /\ \A t \in ObjectChildren : ObjectIdsIn(t) \subseteq ObjectIdsIn("objects")
    /\ \A t \in ConstituentChildren :
          ConstituentIdsIn(t) \subseteq ConstituentIdsIn("constituents")

\* No CSV file of a child table holds an orphaned key.
NoOrphanInCsv ==
    /\ \A t \in ObjectChildren :
          KeysOf(data_dir[t], T_objectid) \subseteq KeysOf(data_dir["objects"], T_objectid)
    /\ \A t \in ConstituentChildren :
          KeysOf(data_dir[t], T_constituentid)
              \subseteq KeysOf(data_dir["constituents"], T_constituentid)

\* A run is over and no load of it failed.
EveryLoadSucceeded == pc = "done" /\ failed_loads = <<>>

(***************************************************************************)
(* C23 as claimed.  After a run in which every load succeeds no child      *)
(* table holds an orphaned key: every objectid of objects_terms,           *)
(* objects_constituents, objects_dimensions, objects_historical_data and   *)
(* objects_text_entries is in objects, and every constituentid of          *)
(* objects_constituents, constituents_altnames and                         *)
(* constituents_text_entries is in constituents.  Violated: the loader     *)
(* writes the child tables as their CSV files have them.                   *)
(***************************************************************************)
C23_NoOrphanedKeysAsClaimed ==
    EveryLoadSucceeded => NoOrphanInDataset

(***************************************************************************)
(* C23 amended.  After a run in which every load succeeds, objects,        *)
(* constituents and each of the child tables hold exactly the objectid and *)
(* constituentid values of their CSV files, so a child table holds an      *)
(* orphaned key exactly when the CSV files do.                             *)
(***************************************************************************)
C23_KeysAsInCsv ==
    EveryLoadSucceeded =>
        /\ \A t \in ObjectChildren \cup {"objects"} :
              ObjectIdsIn(t) = KeysOf(data_dir[t], T_objectid)
        /\ \A t \in ConstituentChildren \cup {"constituents"} :
              ConstituentIdsIn(t) = KeysOf(data_dir[t], T_constituentid)
        /\ NoOrphanInDataset <=> NoOrphanInCsv

\* Every load succeeded; the CSV files name objects 1 and 2, both in
\* objects.csv, and constituents 1 and 2, of which constituents.csv has
\* only the first: constituents_text_entries and objects_constituents hold
\* the orphaned constituentid 2.
C23_Witness ==
    /\ EveryLoadSucceeded
    /\ ObjectIdsIn("objects") = {1, 2}
    /\ \A t \in ObjectChildren : ObjectIdsIn(t) # {} /\ ObjectIdsIn(t) \subseteq {1, 2}
    /\ ConstituentIdsIn("constituents") = {1}
    /\ ConstituentIdsIn("constituents_text_entries") = {2}
    /\ ConstituentIdsIn("objects_constituents") = {1, 2}

\* The rows of published_images.csv that pass the object-id filter: those
\* whose depictstmsobjectid is the objectid of a row of objects.
RowsPassingFilter ==
    { r \in data_dir["published_images"].rows : r[2] \in ObjectIdsIn("objects") }

(***************************************************************************)
(* C24.  Every load is a full truncate-and-replace: a table among the      *)
(* successful loads holds exactly the rows of its CSV file, and            *)
(* published_images exactly the rows of its CSV that pass the object-id    *)
(* filter, with no row of an earlier load.  Violated: the filter hands the *)
(* frame back whole when its query fails or finds no objectid, and the     *)
(* load then succeeds with the rows that do not pass.                      *)
(***************************************************************************)
C24_TruncateAndReplace ==
    \A t \in TableNames :
        Succeeded(t) =>
            /\ NotNull(store[t])
            /\ Val(store[t]).rows =
                 IF t = "published_images" THEN RowsPassingFilter ELSE data_dir[t].rows

\* Characters of column names: digits, letters, both.
DigitChars == {"0", "1", "2", "3", "4", "5", "6", "7", "8", "9"}

LetterChars ==
    { LowerLetters[n] : n \in 1..Len(LowerLetters) }
        \cup { UpperLetters[n] : n \in 1..Len(UpperLetters) }

Alphanumeric(ch) == ch \in DigitChars \cup LetterChars

\* 'col_' before a name that starts with a digit.
WithColPrefix(name) ==
    IF name # <<>> /\ name[1] \in DigitChars
    THEN <<"c", "o", "l", "_">> \o name
    ELSE name

\* The name the claim describes: lower case, an underscore for every
\* character that is not alphanumeric.
NameAsClaimed(col) ==
    WithColPrefix([n \in 1..Len(col) |->
                     IF Alphanumeric(col[n]) THEN LowerChar(col[n]) ELSE "_"])

\* Lower case, an underscore for a space, a hyphen and an underscore, no
\* character for any other that is not alphanumeric.
NameAsSanitized(col) ==
    WithColPrefix(Flatten([n \in 1..Len(col) |->
                     CASE Alphanumeric(col[n]) -> <<LowerChar(col[n])>>
                       [] col[n] \in {" ", "-", "_"} -> <<"_">>
                       [] OTHER -> <<>>]))

\* The tables whose columns are named by sanitize_column_names alone and
\* that the run has loaded.
SanitizedTables ==
    { t \in TableNames \ {"published_images"} : Succeeded(t) }

(***************************************************************************)
(* C25 as claimed.  Every column of a loaded table has the name of its CSV *)
(* column in lower case with every non-alphanumeric character replaced by  *)
(* an underscore, and with 'col_' before it when that would start with a   *)
(* digit.  Violated: only spaces and hyphens become underscores, every     *)
(* other non-alphanumeric character but the underscore is removed.         *)
(***************************************************************************)
C25_SanitizedAsClaimed ==
    \A t \in SanitizedTables :
        \A n \in 1..Len(data_dir[t].columns) :
            Val(store[t]).columns[n] = NameAsClaimed(data_dir[t].columns[n])

(***************************************************************************)
(* C25 amended.  sanitize_column_names yields the name in lower case in    *)
(* which every space and hyphen has been replaced by an underscore and     *)
(* every other character that is neither alphanumeric nor an underscore    *)
(* has been removed, with 'col_' before it when it would otherwise start   *)
(* with a digit; the result contains only lower-case letters, digits and   *)
(* underscores and never starts with a digit.                              *)
(***************************************************************************)
C25_Sanitized ==
    \A t \in SanitizedTables :
        \A n \in 1..Len(data_dir[t].columns) :
            LET name == Val(store[t]).columns[n]
            IN  /\ name = NameAsSanitized(data_dir[t].columns[n])
                /\ \A k \in 1..Len(name) :
                      \/ name[k] \in DigitChars
                      \/ name[k] = "_"
                      \/ \E l \in 1..Len(LowerLetters) : name[k] = LowerLetters[l]
                /\ name = <<>> \/ name[1] \notin DigitChars

\* The run is over and has loaded tables whose CSV columns are "Loc-ID",
\* "1st", "R.b", "Obj (ID)", "2B%" and "_9" as loc_id, col_1st, rb, obj_id,
\* col_2b and _9.
C25_Witness ==
    /\ EveryLoadSucceeded
    /\ data_dir["media_relationships"].columns = << <<"R", ".", "b">> >>
    /\ Val(store["locations"]).columns = << <<"l", "o", "c", "_", "i", "d">> >>
    /\ Val(store["media_items"]).columns = << <<"c", "o", "l", "_", "1", "s", "t">> >>
    /\ Val(store["media_relationships"]).columns = << <<"r", "b">> >>
    /\ Val(store["object_associations"]).columns = << <<"o", "b", "j", "_", "i", "d">> >>
    /\ Val(store["preferred_locations"]).columns = << <<"c", "o", "l", "_", "2", "b">> >>
    /\ Val(store["preferred_locations_tms_locations"]).columns = << <<"_", "9">> >>

\* The run has written published_images: its load is among the successful
\* ones, or it failed at an update of the descriptions, after the write.
PublishedImagesWritten ==
    /\ NotNull(store["published_images"])
    /\ \/ Succeeded("published_images")
       \/ Failed("published_images") /\ Val(store["published_images"]).described < 2

\* The places of the columns of a header that have a given name once the
\* header is in lower case.
ColumnsNamed(columns, name) ==
    { n \in 1..Len(columns) : Lower(columns[n]) = name }

(***************************************************************************)
(* C26.  A published_images table written by the loader, by the filtered   *)
(* or by the standard path, has no column named depictstmsobjectid and has *)
(* its one column named objectid where the CSV has depictstmsobjectid;     *)
(* its rows are rows of the CSV, so that objectid holds values of the      *)
(* source column, all of them when the frame was not filtered.             *)
(***************************************************************************)
C26_ObjectidRenamed ==
    PublishedImagesWritten =>
        LET written == Val(store["published_images"])
            csv == data_dir["published_images"]
        IN  /\ ColumnsNamed(written.columns, T_depictstmsobjectid) = {}
            /\ ColumnsNamed(csv.columns, T_depictstmsobjectid) # {}
            /\ ColumnsNamed(written.columns, T_objectid)
                 = ColumnsNamed(csv.columns, T_depictstmsobjectid)
            /\ \A n \in ColumnsNamed(written.columns, T_objectid) :
                  written.columns[n] = T_objectid
            /\ written.rows \subseteq csv.rows
            /\ ~Succeeded("objects") => written.rows = csv.rows

\* The filtered path has written published_images from a CSV whose column
\* is spelt DepictsTMSObjectID: the row of object 1 as objectid 1, without
\* the row of object 9.
C26_Witness ==
    /\ pc = "done"
    /\ Succeeded("objects")
    /\ Succeeded("published_images")
    /\ data_dir["published_images"].columns[2] = T_DepictsTMSObjectID
    /\ data_dir["published_images"].rows = { <<10, 1>>, <<12, 9>> }
    /\ Val(store["published_images"]).columns = << <<"u", "u", "i", "d">>, T_objectid >>
    /\ Val(store["published_images"]).rows = { <<10, 1>> }

(***************************************************************************)
(* C29.  A table among the failed loads of a run still holds the contents  *)
(* it had before the run: no table, or the table an earlier run left.      *)
(* Violated: the updates of the table and column descriptions stand in the *)
(* try block of the load job, so a failure of one of them reports as       *)
(* failed a table whose rows the run has replaced.                         *)
(***************************************************************************)
C29_FailedLoadLeftTableAlone ==
    \A t \in TableNames :
        Failed(t) => \E before \in Datasets : store[t] = before[t]

\* The call of search has built its statement: it is over and did not stop
\* at where_clauses.append for a scope that is none of the three.
StatementBuilt ==
    /\ outcome # "idle"
    /\ outcome # "UnboundLocalError"

\* The placeholders of one where_clause as the claim counts them.
PlaceholdersPerKeyword == IF search_type = "comprehensive" THEN 5 ELSE 1

(***************************************************************************)
(* C27.  In the statement built by search the where clauses do not depend  *)
(* on the text of the keywords, only on their number and on the scope;     *)
(* there is one clause for each keyword, with 5 placeholders in scope      *)
(* comprehensive and 1 in terms_only and title_only; the bound parameters  *)
(* are as many as the placeholders, and the parameters of the placeholders *)
(* of clause k are all '%' + keyword k in lower case + '%', the keywords   *)
(* in their order.                                                         *)
(***************************************************************************)
C27_KeywordsOnlyAsParameters ==
    StatementBuilt =>
        LET clauses == where_clauses(keywords, search_type)
            ps == params(keywords, search_type)
            per == PlaceholdersPerKeyword
        IN  /\ \A other \in KeywordLists :
                  Len(other) = Len(keywords) =>
                      where_clauses(other, search_type) = clauses
            /\ Len(clauses) = Len(keywords)
            /\ \A k \in 1..Len(clauses) : Len(clauses[k]) = per
            /\ Len(ps) = per * Len(keywords)
            /\ \A k \in 1..Len(keywords) :
                  \A n \in 1..per :
                      /\ ParamIndex(clauses, k, n) = per * (k - 1) + n
                      /\ ps[per * (k - 1) + n] = <<"%">> \o Lower(keywords[k]) \o <<"%">>

\* A comprehensive search for 'aB' and 'c' that returned rows: ten bound
\* parameters, five '%ab%' and then five '%c%'.
C27_Witness ==
    /\ outcome = "returned"
    /\ result # <<>>
    /\ search_type = "comprehensive"
    /\ keywords = << <<"a", "B">>, <<"c">> >>
    /\ params(keywords, search_type) =
         Repeat(<<"%", "a", "b", "%">>, 5) \o Repeat(<<"%", "c", "%">>, 5)

\* The list of keywords holds an empty keyword.
HasEmptyKeyword == \E k \in 1..Len(keywords) : keywords[k] = <<>>

\* The objects that are accessioned, have a primary image with a URL and
\* have a value in a field the scope searches.
EligibleWithSearchedField ==
    { o \in store.objects :
        Eligible(o) /\ \E f \in ScopeFields(o, search_type) : NotNull(f) }

(***************************************************************************)
(* C30.  When the list of keywords holds an empty keyword, search matches  *)
(* every eligible object that has a non-null value in a searched field     *)
(* (in title_only: a non-null title) and no other object, whatever the     *)
(* other keywords are: the rows matched are those the empty keyword alone  *)
(* matches, and the table returned is one that a search for the empty      *)
(* keyword alone may return, the first limit rows of them all.             *)
(***************************************************************************)
C30_EmptyKeywordMatchesAll ==
    (Returned_ /\ HasEmptyKeyword) =>
        /\ ObjectIds(Matching) = ObjectIds(EligibleWithSearchedField)
        /\ Matching = MatchingFor(<< <<>> >>)
        /\ Len(result) = Min(limit, Cardinality(Matching))
        /\ result \in QueryRows(store, << <<>> >>, search_type, limit)
        /\ ObjectIds(Rows) \subseteq ObjectIds(EligibleWithSearchedField)
        /\ NotTruncated => ObjectIds(Rows) = ObjectIds(EligibleWithSearchedField)

\* A title_only search for 'c' and the empty keyword that returned both
\* objects of the store, neither of which has a 'c' in its title.
C30_Witness ==
    /\ Returned_
    /\ search_type = "title_only"
    /\ keywords = << <<"c">>, <<>> >>
    /\ limit = 2
    /\ Len(result) = 2
    /\ ObjectIds(Rows) = {1, 2}
    /\ \A o \in store.objects : NotNull(o.title) /\ ~ContainsCI(Val(o.title), <<"c">>)

\* What was called for which object, call after call, whether or not the
\* call raised.
CallSequence == [n \in 1..Len(calls) |-> <<calls[n].fn, calls[n].objectid>>]

\* The three detail queries of one row, in the order of the handler.
DetailQueriesOf(id) == [n \in 1..Len(DetailFetchers) |-> <<DetailFetchers[n], id>>]

\* The rows of the result that were displayed.
DisplayedRows == TimesShown("artwork")

(***************************************************************************)
(* C28.  The calls of a request that is over are one sequential pipeline:  *)
(* one model call; no other call when it failed, else one retrieval query; *)
(* then, when detailed information is enabled, the provenance, the         *)
(* text-entries and the related-artworks query of each displayed row, one  *)
(* of each, row after row in result order, and no detail query otherwise.  *)
(* Violated: a detail query that raises ends the request, so the row it    *)
(* was made for is displayed without the queries that should follow.       *)
(***************************************************************************)
C28_OneSequentialPipeline ==
    pc = "done" =>
        /\ calls # <<>>
        /\ CallSequence[1] = <<"generate_content", 0>>
        /\ IF calls[1].raised
           THEN Len(calls) = 1
           ELSE /\ Len(calls) >= 2
                /\ CallSequence[2] = <<"query_artworks_enhanced", 0>>
                /\ SubSeq(CallSequence, 3, Len(calls)) =
                     IF show_detailed_info
                     THEN Flatten([i \in 1..DisplayedRows |->
                                     DetailQueriesOf(result[i].objectid)])
                     ELSE <<>>

====
